---- MODULE Spec2Model ----
(***************************************************************************)
(* A model of the Last9 deployment marker action: the error classes, the   *)
(* retry wrapper withRetry, the TokenManager cache, the Last9ApiClient,    *)
(* the PluginRegistry, the MiddlewarePipeline and the orchestrator run().  *)
(* The specifications share the variables:                                 *)
(*   SpecRetry       withRetry around an arbitrary operation               *)
(*   SpecToken       a TokenManager driven by arbitrary callers            *)
(*   Spec            one invocation of run()                               *)
(*   SpecHttp        createHttpError on one response                       *)
(*   SpecAttributes  collectAttributes on one configuration                *)
(*   SpecBackoff     calculateBackoff on one set of arguments              *)
(*   SpecErrors      isRetryableError on one thrown value                  *)
(*   SpecClient      one Last9ApiClient call, step by step                 *)
(*   SpecRegistry    a PluginRegistry driven by arbitrary callers          *)
(*   SpecDispose     PluginRegistry.dispose over any registrations         *)
(*   SpecProviders   getAttributeProviders over any registration order     *)
(*   SpecOverlap     a TokenManager with two overlapping callers           *)
(*   SpecPipeline    a MiddlewarePipeline driven by arbitrary callers      *)
(***************************************************************************)
EXTENDS Integers, Sequences, FiniteSets, TLC

VARIABLES now, retry, opLog, cache, tm, run, req, registry, pipeline

vars == <<now, retry, opLog, cache, tm, run, req, registry, pipeline>>

\* ------------------------------------------------------------------ bounds
\* largest maxAttempts a retry policy is given
MaxAttempts == 3
\* exchange calls one TokenManager serves in SpecToken
MaxExchanges == 2
\* the clock of SpecToken runs over the seconds 0..MaxSec
MaxSec == 2
\* a Retry-After header names between -MaxRetryAfter and MaxRetryAfter seconds
MaxRetryAfter == 5

\* ------------------------------------------------------- errors (errors.ts)
\* An error value: the class name, its code, the retryable flag fixed at
\* construction, the status code (0: undefined), the identity of the object,
\* the message and context.retryAfterMs.
\* a number | undefined
NoRetryAfter == [defined |-> FALSE, ms |-> 0]

NoError == [name |-> "undefined", code |-> "", retryable |-> FALSE, statusCode |-> 0, obj |-> 0,
   message |-> "", retryAfterMs |-> NoRetryAfter]

ConfigError(obj) ==
  [name |-> "ConfigError", code |-> "CONFIG_ERROR", retryable |-> FALSE, statusCode |-> 0, obj |-> obj,
   message |-> "", retryAfterMs |-> NoRetryAfter]

TokenExchangeError(obj) ==
  [name |-> "TokenExchangeError", code |-> "TOKEN_EXCHANGE_ERROR", retryable |-> FALSE,
   statusCode |-> 0, obj |-> obj,
   message |-> "", retryAfterMs |-> NoRetryAfter]

NetworkError(obj) ==
  [name |-> "NetworkError", code |-> "NETWORK_ERROR", retryable |-> TRUE, statusCode |-> 0, obj |-> obj,
   message |-> "", retryAfterMs |-> NoRetryAfter]

TimeoutError(obj) ==
  [name |-> "TimeoutError", code |-> "TIMEOUT_ERROR", retryable |-> TRUE, statusCode |-> 408, obj |-> obj,
   message |-> "", retryAfterMs |-> NoRetryAfter]

ConnectionError(obj) ==
  [name |-> "ConnectionError", code |-> "CONNECTION_ERROR", retryable |-> TRUE, statusCode |-> 0, obj |-> obj,
   message |-> "", retryAfterMs |-> NoRetryAfter]

\* 5xx errors and 429 are retryable
ApiError(statusCode, obj) ==
  [name |-> "ApiError", code |-> "API_ERROR",
   retryable |-> (statusCode >= 500 \/ statusCode = 429), statusCode |-> statusCode, obj |-> obj,
   message |-> "", retryAfterMs |-> NoRetryAfter]

RateLimitError(obj) ==
  [name |-> "RateLimitError", code |-> "RATE_LIMIT_ERROR", retryable |-> TRUE, statusCode |-> 429, obj |-> obj,
   message |-> "", retryAfterMs |-> NoRetryAfter]

ServerError(statusCode, obj) ==
  [name |-> "ServerError", code |-> "SERVER_ERROR", retryable |-> TRUE, statusCode |-> statusCode, obj |-> obj,
   message |-> "", retryAfterMs |-> NoRetryAfter]

InvalidInputError(obj) ==
  [name |-> "InvalidInputError", code |-> "INVALID_INPUT", retryable |-> FALSE, statusCode |-> 0, obj |-> obj,
   message |-> "", retryAfterMs |-> NoRetryAfter]

ValidationError(obj) ==
  [name |-> "ValidationError", code |-> "VALIDATION_ERROR", retryable |-> FALSE, statusCode |-> 0, obj |-> obj,
   message |-> "", retryAfterMs |-> NoRetryAfter]

TokenExpiredError(obj) ==
  [name |-> "TokenExpiredError", code |-> "TOKEN_EXPIRED", retryable |-> TRUE, statusCode |-> 401, obj |-> obj,
   message |-> "", retryAfterMs |-> NoRetryAfter]

UnauthorizedError(obj) ==
  [name |-> "UnauthorizedError", code |-> "UNAUTHORIZED", retryable |-> FALSE, statusCode |-> 401, obj |-> obj,
   message |-> "", retryAfterMs |-> NoRetryAfter]

UnknownError(obj) ==
  [name |-> "UnknownError", code |-> "UNKNOWN_ERROR", retryable |-> FALSE, statusCode |-> 0, obj |-> obj,
   message |-> "", retryAfterMs |-> NoRetryAfter]

\* A thrown value that is an Error but no Last9Error, and one that is no Error.
RawError(obj) == [name |-> "Error", code |-> "", retryable |-> FALSE, statusCode |-> 0, obj |-> obj,
   message |-> "", retryAfterMs |-> NoRetryAfter]

NonError(obj) == [name |-> "nonError", code |-> "", retryable |-> FALSE, statusCode |-> 0, obj |-> obj,
   message |-> "", retryAfterMs |-> NoRetryAfter]

\* An Error that is no Last9Error and carries a property retryable: true.
RetryableLookalike(obj) == [name |-> "Error", code |-> "", retryable |-> TRUE, statusCode |-> 0, obj |-> obj,
   message |-> "", retryAfterMs |-> NoRetryAfter]

Last9ErrorNames ==
  {"ConfigError", "InvalidInputError", "ValidationError", "TokenExchangeError",
   "TokenExpiredError", "UnauthorizedError", "NetworkError", "TimeoutError",
   "ConnectionError", "ApiError", "RateLimitError", "ServerError", "PluginError",
   "PluginNotFoundError", "PluginInitError", "CircuitBreakerOpenError", "UnknownError"}

isLast9Error(error) == error.name \in Last9ErrorNames

\* isRetryableError trusting the flag of whatever value it is given.
isRetryableErrorByFlag(error) == error.retryable

isRetryableError(error) == isLast9Error(error) /\ error.retryable

\* ------------------------------------------------------------ numbers
\* A JavaScript number: NaN or a value.
NaN == [nan |-> TRUE, v |-> 0]

Num(v) == [nan |-> FALSE, v |-> v]

isNaN(x) == x.nan

\* ------------------------------------------------------------ time (time.ts)
RECURSIVE Pow2(_)
Pow2(n) == IF n <= 0 THEN 1 ELSE 2 * Pow2(n - 1)

Min(a, b) == IF a <= b THEN a ELSE b

\* Math.random() in tenths: 0, 0.5 and 0.9 stand for the draws of [0, 1).
RandomTenths == {0, 5, 9}

\* const exponential = Math.pow(2, attemptNumber) * baseMs
exponential(attemptNumber, baseMs) == Pow2(attemptNumber) * baseMs

\* const jitter = Math.random() * 0.3 * exponential, in whole milliseconds
\* (the timer rounds the delay down).
jitter(attemptNumber, baseMs, random) ==
  (random * 3 * exponential(attemptNumber, baseMs)) \div 100

\* The sum returned with no clamp.
calculateBackoffUnclamped(attemptNumber, baseMs, maxMs, random) ==
  exponential(attemptNumber, baseMs) + jitter(attemptNumber, baseMs, random)

\* exponential + jitter (30% of exponential, scaled by the draw), clamped to
\* maxMs.
calculateBackoff(attemptNumber, baseMs, maxMs, random) ==
  Min(exponential(attemptNumber, baseMs) + jitter(attemptNumber, baseMs, random), maxMs)

\* ------------------------------------------------------- withRetry (retry.ts)
\* The outcome of one invocation of the operation.
Resolved(value) == [ok |-> TRUE, value |-> value, error |-> NoError]

Rejected(error) == [ok |-> FALSE, value |-> [type |-> "undefined"], error |-> error]

\* The frame of a withRetry call that has not started.
IdleRetry ==
  [config |-> [maxAttempts |-> 0, backoffMs |-> 0, maxBackoffMs |-> 0],
   attempt |-> 0, lastError |-> NoError, status |-> "idle",
   result |-> [type |-> "undefined"],
   thrown |-> NoError, backoffTime |-> 0, calls |-> 0, sleeps |-> 0]

\* withRetry is entered: let lastError; attempt = 0.
StartRetry(config) == [IdleRetry EXCEPT !.config = config, !.status = "loop"]

\* The catch block with no check of the last attempt: sleeps after it too.
withRetryCatchSleepsAfterLast(w, error, random) ==
  IF ~isRetryableError(error)
  THEN [w EXCEPT !.lastError = error, !.status = "thrown", !.thrown = error]
  ELSE [w EXCEPT !.lastError = error, !.status = "sleeping", !.sleeps = @ + 1,
                 !.backoffTime = calculateBackoff(w.attempt, w.config.backoffMs,
                                                  w.config.maxBackoffMs, random)]

\* The catch block retrying whatever the error is.
withRetryCatchRetriesAll(w, error, random) ==
  IF w.attempt = w.config.maxAttempts - 1
  THEN [w EXCEPT !.lastError = error, !.status = "thrown", !.thrown = error]
  ELSE [w EXCEPT !.lastError = error, !.status = "sleeping", !.sleeps = @ + 1,
                 !.backoffTime = calculateBackoff(w.attempt, w.config.backoffMs,
                                                  w.config.maxBackoffMs, random)]

\* The catch block counting attempts from one when it computes the backoff.
withRetryCatchOneIndexed(w, error, random) ==
  IF w.attempt = w.config.maxAttempts - 1
  THEN [w EXCEPT !.lastError = error, !.status = "thrown", !.thrown = error]
  ELSE IF ~isRetryableError(error)
       THEN [w EXCEPT !.lastError = error, !.status = "thrown", !.thrown = error]
       ELSE [w EXCEPT !.lastError = error, !.status = "sleeping", !.sleeps = @ + 1,
                      !.backoffTime = calculateBackoff(w.attempt + 1, w.config.backoffMs,
                                                       w.config.maxBackoffMs, random)]

\* The catch block of the loop: on the last attempt break and throw lastError;
\* a non-retryable error is thrown at once; otherwise the backoff is computed
\* from the current attempt and the sleep starts.
withRetryCatch(w, error, random) ==
  IF w.attempt = w.config.maxAttempts - 1
  THEN [w EXCEPT !.lastError = error, !.status = "thrown", !.thrown = error]
  ELSE IF ~isRetryableError(error)
       THEN [w EXCEPT !.lastError = error, !.status = "thrown", !.thrown = error]
       ELSE [w EXCEPT !.lastError = error, !.status = "sleeping", !.sleeps = @ + 1,
                      !.backoffTime = calculateBackoff(w.attempt, w.config.backoffMs,
                                                       w.config.maxBackoffMs, random)]

\* The try block keeping the result but leaving the loop only at its end.
withRetryTryNoReturn(w, outcome, random) ==
  IF outcome.ok /\ w.attempt = w.config.maxAttempts - 1
  THEN [w EXCEPT !.status = "returned", !.result = outcome.value]
  ELSE IF outcome.ok
       THEN [w EXCEPT !.attempt = @ + 1, !.status = "loop", !.result = outcome.value]
       ELSE withRetryCatch(w, outcome.error, random)

\* operation() invoked and not awaited: the loop goes on at once.
withRetryInvokeNoAwait(w) == [w EXCEPT !.calls = @ + 1, !.attempt = @ + 1]

\* The loop test holds: operation() is invoked and awaited.
withRetryInvoke(w) == [w EXCEPT !.status = "awaiting", !.calls = @ + 1]

\* One pass of the loop body, given what the awaited operation() did.
withRetryTry(w, outcome, random) ==
  IF outcome.ok
  THEN [w EXCEPT !.status = "returned", !.result = outcome.value]
  ELSE withRetryCatch(w, outcome.error, random)

\* await sleep(backoffTime) has ended: attempt++ and back to the loop test.
withRetrySleepDone(w) == [w EXCEPT !.attempt = @ + 1, !.status = "loop"]

\* The loop test fails: "All retries exhausted", throw lastError.
withRetryExhausted(w) == [w EXCEPT !.status = "thrown", !.thrown = w.lastError]

\* ------------------------------------------- TokenManager (token-manager.ts)
MsPerSecond == 1000

DefaultExpiryBufferSeconds == 300

RefreshTokens == {"rtA", "rtB"}

\* A cache key that is the same for every refresh token.
getCacheKeyShared(refreshToken) == "5c2f06d83dac884d"

\* The first 16 hex characters of the SHA-256 digest of the refresh token:
\* a fixed function of the token (the digests of the model's tokens).
getCacheKey(refreshToken) ==
  CASE refreshToken = "rtA" -> "5c2f06d83dac884d"
    [] refreshToken = "rtB" -> "8a399bbbd281482b"

CacheKeys == {getCacheKey(r) : r \in RefreshTokens}

\* cache.get(key) === undefined
NoEntry ==
  [accessToken |-> 0, refreshToken |-> "", expiresAt |-> 0, cachedAt |-> 0, obj |-> 0]

\* isExpired with < for <=: a token is served at the very instant it expires.
isExpiredStrict(timestamp, bufferSeconds, nowMs) ==
  (timestamp * MsPerSecond - bufferSeconds * MsPerSecond) < nowMs

\* isExpired for a Unix timestamp in seconds.
isExpired(timestamp, bufferSeconds, nowMs) ==
  LET expiryTime == timestamp * MsPerSecond
      buffer == bufferSeconds * MsPerSecond
  IN  (expiryTime - buffer) <= nowMs

isTokenExpired(t, expiresAt, nowMs) == isExpired(expiresAt, t.expiryBufferSeconds, nowMs)

\* A getAccessToken call that is not running.
IdleCall ==
  [status |-> "idle", refreshToken |-> "", value |-> 0, via |-> "", cause |-> NoError,
   thrown |-> NoError]

Callers == {1}

\* new TokenManager(apiClient, config): expiryBufferSeconds || 300, empty cache.
NewTokenManager(expiryBufferSeconds) ==
  [expiryBufferSeconds |-> IF expiryBufferSeconds = 0 THEN DefaultExpiryBufferSeconds
                           ELSE expiryBufferSeconds,
   exchanges |-> 0, nextObj |-> 1, calls |-> [c \in Callers |-> IdleCall]]

EmptyCache == [k \in CacheKeys |-> NoEntry]

\* getAccessToken that starts no exchange of its own while another call is
\* exchanging the same refresh token, and waits for that one.
getAccessTokenEnterJoins(t, ch, c, refreshToken, nowMs) ==
  LET cacheKey == getCacheKey(refreshToken)
      cached == ch[cacheKey]
      joins == \E d \in DOMAIN t.calls :
                 t.calls[d].status = "exchanging" /\ t.calls[d].refreshToken = refreshToken
  IN  IF cached # NoEntry /\ ~isTokenExpired(t, cached.expiresAt \div MsPerSecond, nowMs)
      THEN [tm |-> [t EXCEPT !.calls[c] =
                      [IdleCall EXCEPT !.status = "returned", !.refreshToken = refreshToken,
                                       !.value = cached.accessToken, !.via = "cache"]],
            cache |-> ch]
      ELSE [tm |-> [t EXCEPT !.exchanges = IF joins THEN @ ELSE @ + 1,
                             !.calls[c] = [IdleCall EXCEPT !.status = "exchanging",
                                                           !.refreshToken = refreshToken]],
            cache |-> ch]

\* getAccessToken up to its await: the cached token is returned if there is one
\* and it is not expired; otherwise refreshAccessToken is called.
getAccessTokenEnter(t, ch, c, refreshToken, nowMs) ==
  LET cacheKey == getCacheKey(refreshToken)
      cached == ch[cacheKey]
  IN  IF cached # NoEntry /\ ~isTokenExpired(t, cached.expiresAt \div MsPerSecond, nowMs)
      THEN [tm |-> [t EXCEPT !.calls[c] =
                      [IdleCall EXCEPT !.status = "returned", !.refreshToken = refreshToken,
                                       !.value = cached.accessToken, !.via = "cache"]],
            cache |-> ch]
      ELSE [tm |-> [t EXCEPT !.exchanges = @ + 1,
                             !.calls[c] = [IdleCall EXCEPT !.status = "exchanging",
                                                           !.refreshToken = refreshToken]],
            cache |-> ch]

\* The exchange rejected, the underlying error rethrown and the entry kept.
getAccessTokenRejectedRethrows(t, ch, c, error, nowMs) ==
  [tm |-> [t EXCEPT !.calls[c] = [@ EXCEPT !.status = "thrown", !.cause = error,
                                           !.thrown = error]],
   cache |-> ch]

\* The exchange rejected: the key's entry is deleted and a TokenExchangeError
\* (a new object) is thrown, whether or not the value caught is an Error; its
\* message ends with the message of the error caught.
getAccessTokenRejected(t, ch, c, error, nowMs) ==
  LET cacheKey == getCacheKey(t.calls[c].refreshToken)
  IN  [tm |-> [t EXCEPT !.calls[c] = [@ EXCEPT !.status = "thrown", !.cause = error,
                                               !.thrown =
                                                 [TokenExchangeError(error.obj + 1)
                                                    EXCEPT !.message = error.message]]],
       cache |-> [ch EXCEPT ![cacheKey] = NoEntry]]

\* The exchange resolved, the new token written into the entry already cached.
getAccessTokenResolvedInPlace(t, ch, c, tokenResponse, nowMs) ==
  LET cacheKey == getCacheKey(t.calls[c].refreshToken)
      cachedToken == [accessToken |-> tokenResponse.access_token,
                      refreshToken |-> tokenResponse.refresh_token,
                      expiresAt |-> tokenResponse.expires_at.v * MsPerSecond,
                      cachedAt |-> nowMs,
                      obj |-> IF ch[cacheKey] # NoEntry THEN ch[cacheKey].obj ELSE t.nextObj]
  IN  [tm |-> [t EXCEPT !.nextObj = @ + 1,
                        !.calls[c] = [@ EXCEPT !.status = "returned",
                                               !.value = tokenResponse.access_token,
                                               !.via = "exchange"]],
       cache |-> [ch EXCEPT ![cacheKey] = cachedToken]]

\* What expiresAt.toISOString() throws when expiresAt is an Invalid Date.
RangeError(obj) ==
  [name |-> "RangeError", code |-> "", retryable |-> FALSE, statusCode |-> 0, obj |-> obj,
   message |-> "Invalid time value", retryAfterMs |-> NoRetryAfter]

\* The exchange resolved: a new CachedToken is stored under the key and the
\* response's access token is returned, whatever it is (0: undefined).  With
\* no expires_at in the response, expires_at * 1000 is NaN and expiresAt an
\* Invalid Date: the entry is stored, expiresAt.toISOString() in the log call
\* that follows throws a RangeError, and the catch block takes over.
getAccessTokenResolved(t, ch, c, tokenResponse, nowMs) ==
  LET cacheKey == getCacheKey(t.calls[c].refreshToken)
      cachedToken == [accessToken |-> tokenResponse.access_token,
                      refreshToken |-> tokenResponse.refresh_token,
                      expiresAt |-> tokenResponse.expires_at.v * MsPerSecond,
                      cachedAt |-> nowMs,
                      obj |-> t.nextObj]
  IN  IF isNaN(tokenResponse.expires_at)
      THEN getAccessTokenRejected(t, [ch EXCEPT ![cacheKey] = cachedToken], c,
                                  RangeError(t.nextObj), nowMs)
      ELSE [tm |-> [t EXCEPT !.nextObj = @ + 1,
                             !.calls[c] = [@ EXCEPT !.status = "returned",
                                                    !.value = tokenResponse.access_token,
                                                    !.via = "exchange"]],
            cache |-> [ch EXCEPT ![cacheKey] = cachedToken]]

\* clearCache deleting one key's entry only.
clearCacheOneKey(ch) == [k \in DOMAIN ch |-> IF k = getCacheKey("rtA") THEN NoEntry ELSE ch[k]]

\* clearCache(): cache.clear()
clearCache(ch) == [k \in DOMAIN ch |-> NoEntry]

\* ------------------------------------------------ HTTP utilities (http.ts)
isSuccessStatus(statusCode) == statusCode >= 200 /\ statusCode < 300

isClientError(statusCode) == statusCode >= 400 /\ statusCode < 500

isServerError(statusCode) == statusCode >= 500 /\ statusCode < 600

\* A Retry-After header value as parseRetryAfter reads it: undefined, or a
\* string that is empty or not, with what parseInt(s, 10) and
\* new Date(s).getTime() make of it (a number or NaN).
NoHeader == [present |-> FALSE, empty |-> TRUE, parseInt |-> NaN, getTime |-> NaN]

Max(a, b) == IF a >= b THEN a ELSE b

\* parseRetryAfter: seconds first, then an HTTP date, else undefined.
parseRetryAfter(retryAfter, nowMs) ==
  IF ~retryAfter.present \/ retryAfter.empty THEN NoRetryAfter
  ELSE IF ~isNaN(retryAfter.parseInt)
       THEN [defined |-> TRUE, ms |-> retryAfter.parseInt.v * 1000]
       ELSE IF ~isNaN(retryAfter.getTime)
            THEN [defined |-> TRUE, ms |-> Max(0, retryAfter.getTime.v - nowMs)]
            ELSE NoRetryAfter

\* createHttpError without the branch of 408 and 504.
createHttpErrorNoTimeout(statusCode, message, context, obj, nowMs) ==
  IF statusCode = 429
  THEN [RateLimitError(obj) EXCEPT !.message = message,
                                   !.retryAfterMs = parseRetryAfter(context.retryAfter, nowMs)]
  ELSE IF isServerError(statusCode)
       THEN [ServerError(statusCode, obj) EXCEPT !.message = message]
       ELSE [ApiError(statusCode, obj) EXCEPT !.message = message]

\* createHttpError(statusCode, message, context): obj is the identity of the
\* error made, nowMs the clock parseRetryAfter reads.
createHttpError(statusCode, message, context, obj, nowMs) ==
  IF statusCode = 429
  THEN [RateLimitError(obj) EXCEPT !.message = message,
                                   !.retryAfterMs = parseRetryAfter(context.retryAfter, nowMs)]
  ELSE IF statusCode = 408 \/ statusCode = 504
       THEN [TimeoutError(obj) EXCEPT !.message = message]
       ELSE IF isServerError(statusCode)
            THEN [ServerError(statusCode, obj) EXCEPT !.message = message]
            ELSE IF isClientError(statusCode)
                 THEN [ApiError(statusCode, obj) EXCEPT !.message = message]
                 ELSE [ApiError(statusCode, obj) EXCEPT !.message = message]

\* createNetworkError(error): a TimeoutError when the message of the error
\* includes 'timeout', a NetworkError otherwise.
createNetworkError(messageHasTimeout, obj) ==
  IF messageHasTimeout
  THEN [TimeoutError(obj) EXCEPT !.message = "network timeout"]
  ELSE [NetworkError(obj) EXCEPT !.message = "fetch failed"]

\* ------------------------------------------- Last9ApiClient (last9-client.ts)
\* What fetch does with one request: a response with a status, the error or
\* message of its JSON body ("" when it has none) and a Retry-After header, an
\* abort by the timeout, a TypeError of the transport, or another exception.
HttpStatuses == {200, 401, 404, 429, 503}

FailureTransports ==
  {[kind |-> "response", status |-> s, timeoutInMessage |-> FALSE, body |-> "",
    retryAfter |-> NoHeader] : s \in HttpStatuses \ {200}}
  \cup {[kind |-> k, status |-> 0, timeoutInMessage |-> t, body |-> "", retryAfter |-> NoHeader] :
          k \in {"abort", "typeError", "other"}, t \in {FALSE}}
  \cup {[kind |-> "typeError", status |-> 0, timeoutInMessage |-> TRUE, body |-> "",
         retryAfter |-> NoHeader]}

\* The event endpoint also answers 401 with a body that says so.
SendFailureTransports ==
  FailureTransports
  \cup {[kind |-> "response", status |-> 401, timeoutInMessage |-> FALSE, body |-> "Unauthorized",
         retryAfter |-> NoHeader]}

\* The error makeRequest throws for a transport outcome that is no 2xx
\* response: errorJson.error || errorJson.message || the default message.
makeRequestError(transport, obj, nowMs) ==
  CASE transport.kind = "response" ->
         createHttpError(transport.status,
                         IF transport.body # "" THEN transport.body
                         ELSE "API request failed with status",
                         [retryAfter |-> transport.retryAfter], obj, nowMs)
    [] transport.kind = "abort" ->
         createHttpError(408, "Request timeout after 30000ms", [retryAfter |-> NoHeader],
                         obj, nowMs)
    [] transport.kind = "typeError" -> createNetworkError(transport.timeoutInMessage, obj)
    [] OTHER -> RawError(obj)

\* refreshAccessToken on a 2xx response with the parsed body `result`: the
\* fields are copied as they are, a body without refresh_token (""), without
\* access_token (0) or without expires_at (NaN once multiplied) included.
refreshAccessTokenResponse(result, refreshToken) ==
  [access_token |-> result.access_token,
   refresh_token |-> IF result.refresh_token = "" THEN refreshToken ELSE result.refresh_token,
   expires_at |-> result.expires_at]

\* ------------------------------------ Last9ApiClient: one call, step by step
\* timeoutMs: what run() constructs the client with, and the default.
TimeoutMs == 30000

\* What the strings of a request and of an error's context are built from;
\* two of the parts are the token values.
SecretParts == {"refreshToken", "accessToken"}

\* The url and the options sendChangeEvent and refreshAccessToken hand to
\* makeRequest.
RequestOptions(op) ==
  IF op = "sendChangeEvent"
  THEN [method |-> "PUT", url |-> {"baseUrl", "version", "orgSlug"},
        headers |-> {"Content-Type", "accessToken"}, body |-> {"event"}]
  ELSE [method |-> "POST", url |-> {"baseUrl", "version"},
        headers |-> {"Content-Type"}, body |-> {"refreshToken", "grant_type"}]

\* A context entry: a key and the parts its value is built from.
Entry(key, parts) == [key |-> key, parts |-> parts]

\* The context given to createHttpError with the headers and the body of the
\* request in it.
responseContextWithOptions(options) ==
  {Entry("url", options.url), Entry("method", {options.method}),
   Entry("headers", options.headers), Entry("body", options.body),
   Entry("statusCode", {"response.status"}),
   Entry("retry-after", {"response.retry-after"})}

\* { url, method: options.method, statusCode, 'retry-after' }
responseContext(options) ==
  {Entry("url", options.url), Entry("method", {options.method}),
   Entry("statusCode", {"response.status"}),
   Entry("retry-after", {"response.retry-after"})}

\* { url, method: options.method }
abortContext(options) == {Entry("url", options.url), Entry("method", {options.method})}

\* The context of the error createHttpError returns: RateLimitError adds
\* retryAfterMs, the other classes keep the context they are given.
createHttpErrorContext(statusCode, context) ==
  IF statusCode = 429 THEN context \cup {Entry("retryAfterMs", {"response.retry-after"})}
  ELSE context

\* { originalError: error.name }, of createNetworkError and of the
\* TokenExchangeError getAccessToken throws for an Error.
originalErrorContext == {Entry("originalError", {"error.name"})}

\* A thrown value that is an Error with the given name and no Last9Error.
NamedError(name, obj) ==
  [name |-> name, code |-> "", retryable |-> FALSE, statusCode |-> 0, obj |-> obj,
   message |-> "", retryAfterMs |-> NoRetryAfter]

NoTokenResponse == [access_token |-> 0, refresh_token |-> "", expires_at |-> NaN]

\* No call of the client is running.  Of a call: the method called, where it
\* is (awaiting fetch, awaiting response.text() of a non-2xx response,
\* awaiting response.json() of a 2xx response, resolved, rejected), whether
\* the abort timer is set and when the request started, the status and the
\* Retry-After header received, and what the call rejected with (the error,
\* its context and the statement that threw it) or resolved with;
\* managerContext is the context of the TokenExchangeError getAccessToken
\* threw for the call.
IdleRequest ==
  [op |-> "", pc |-> "idle", timer |-> FALSE, started |-> 0, obj |-> 0, status |-> 0,
   retryAfter |-> NoHeader, error |-> NoError, context |-> {}, via |-> "",
   tokenResponse |-> NoTokenResponse, managerContext |-> {}]

Pending(q) == q.pc \in {"fetch", "errorBody", "body"}

\* makeRequest up to `await fetch(...)`: the controller is made and the
\* timer set.
makeRequestStart(op, obj, nowMs) ==
  [IdleRequest EXCEPT !.op = op, !.pc = "fetch", !.timer = TRUE, !.started = nowMs,
                      !.obj = obj]

\* The call rejects: makeRequest's catch block clears the timer, and the
\* catch block of sendChangeEvent or refreshAccessToken rethrows what it
\* caught.
clientThrow(q, error, context, via) ==
  [q EXCEPT !.pc = "rejected", !.timer = FALSE, !.error = error, !.context = context,
            !.via = via]

\* The timer fires: controller.abort(), fetch rejects with an AbortError and
\* the catch block throws createHttpError(408, ...).
makeRequestTimeout(q, nowMs) ==
  clientThrow(q,
    makeRequestError([kind |-> "abort", status |-> 0, timeoutInMessage |-> FALSE,
                      body |-> "", retryAfter |-> NoHeader], q.obj, nowMs),
    createHttpErrorContext(408, abortContext(RequestOptions(q.op))), "abort")

\* fetch resolves with the status line and the headers: clearTimeout, then
\* `await response.text()` for a non-2xx status; for a 2xx status the
\* response is returned and the caller awaits response.json().
makeRequestFetchResolved(q, status, retryAfter) ==
  [q EXCEPT !.timer = FALSE, !.status = status, !.retryAfter = retryAfter,
            !.pc = IF isSuccessStatus(status) THEN "body" ELSE "errorBody"]

\* fetch, or response.text() of a non-2xx response, rejects with something
\* that is no abort: the catch block makes a TypeError a NetworkError or a
\* TimeoutError and rethrows anything else.
makeRequestCatch(q, transport, nowMs) ==
  clientThrow(q, makeRequestError(transport, q.obj, nowMs),
              IF transport.kind = "typeError" THEN originalErrorContext ELSE {},
              IF transport.kind = "typeError" THEN "network" ELSE "rethrown")

\* The body of a non-2xx response has been read: createHttpError is thrown.
makeRequestErrorBody(q, body, nowMs) ==
  clientThrow(q,
    makeRequestError([kind |-> "response", status |-> q.status, timeoutInMessage |-> FALSE,
                      body |-> body, retryAfter |-> q.retryAfter], q.obj, nowMs),
    createHttpErrorContext(q.status, responseContext(RequestOptions(q.op))), "response")

\* response.json() of a 2xx response rejects (the body is no JSON: a
\* SyntaxError; the body stream fails: a TypeError): the callers' catch
\* blocks log and rethrow.
responseJsonRejected(q, name) == clientThrow(q, NamedError(name, q.obj), {}, "json")

\* response.json() of a 2xx response resolves with `result`.
responseJsonResolved(q, result, refreshToken) ==
  [q EXCEPT !.pc = "resolved",
            !.tokenResponse = IF q.op = "refreshAccessToken"
                              THEN refreshAccessTokenResponse(result, refreshToken)
                              ELSE NoTokenResponse]

\* ----------------------------------------------------------- run (index.ts)
\* A timestamp: none (undefined or ""), the ISO string of a local instant, or
\* a string the server returned.
NoTimestamp == [src |-> "none", at |-> 0]

\* new Date().toISOString()
getCurrentTimestamp(nowMs) == [src |-> "local", at |-> nowMs]

ServerTimestamp(at) == [src |-> "server", at |-> at]

\* a || b on timestamps
OrElse(a, b) == IF a # NoTimestamp THEN a ELSE b

NoConfig ==
  [eventState |-> "", refreshToken |-> "", maxRetryAttempts |-> 0, retryBackoffMs |-> 0,
   maxRetryBackoffMs |-> 0]

\* ------------------------------------------------------ loadConfig (config.ts)
\* An input of the action read with context.getInput: a string; for the
\* numeric inputs, what parseInt(s, 10) makes of it.
NoInput == [text |-> "", parseInt |-> NaN]

NumberInput(n) == [text |-> "digits", parseInt |-> Num(n)]

\* value.toLowerCase().trim()
Normalized(value) ==
  CASE value = "BOTH " -> "both"
    [] OTHER -> value

\* parseInt(context.getInput(name) || fallback, 10)
parseIntInput(input, fallback) == IF input.text = "" THEN fallback ELSE input.parseInt.v

DefaultMaxRetryAttempts == 3

\* loadConfig: refresh_token and org_slug are read as required inputs,
\* event_state is parsed, the retry inputs are parsed with their defaults;
\* no other input is read.
loadConfig(inputs) ==
  IF inputs.refresh_token = "" \/ inputs.org_slug = ""
  THEN [ok |-> FALSE, config |-> NoConfig,
        error |-> [InvalidInputError(1) EXCEPT !.message = "Failed to get input"]]
  ELSE LET eventState == Normalized(IF inputs.event_state # "" THEN inputs.event_state ELSE "stop")
       IN  IF eventState \notin {"start", "stop", "both"}
           THEN [ok |-> FALSE, config |-> NoConfig,
                 error |-> [InvalidInputError(1) EXCEPT !.message = "Invalid event_state"]]
           ELSE [ok |-> TRUE, error |-> NoError,
                 config |-> [eventState |-> eventState,
                             refreshToken |-> inputs.refresh_token,
                             maxRetryAttempts |->
                               parseIntInput(inputs.max_retry_attempts, DefaultMaxRetryAttempts),
                             retryBackoffMs |-> parseIntInput(inputs.retry_backoff_ms, 1000),
                             maxRetryBackoffMs |->
                               parseIntInput(inputs.max_retry_backoff_ms, 30000)]]

NoOutputs == [success |-> "", start_timestamp |-> NoTimestamp, stop_timestamp |-> NoTimestamp]

Phases == {"token", "start", "stop"}

\* run() before its try block; the fields after `setFailed` record what the
\* invocation did: how loadConfig and each phase's withRetry ended, the network
\* requests started per phase and, per phase, whether the errors behind its
\* failed requests were retryable.
\* Further, `env` is the env input the action was started with, `inFlight`
\* counts the requests started and not yet settled, `sent` holds per phase
\* the events its requests carried and `body` the timestamp of the 2xx body
\* that ended the phase; `successWrites` counts the times the output
\* 'success' was written.
IdleRun ==
  [pc |-> "idle", config |-> NoConfig, accessToken |-> 0,
   startEvent |-> NoTimestamp, stopEvent |-> NoTimestamp,
   startTimestamp |-> NoTimestamp, stopTimestamp |-> NoTimestamp,
   outputs |-> NoOutputs, successWrites |-> 0, setFailed |-> "", setFailedMessage |-> "",
   phaseResult |-> [p \in Phases \cup {"config"} |-> ""],
   netCalls |-> [p \in Phases |-> 0], causes |-> [p \in Phases |-> {}],
   env |-> "", inFlight |-> 0,
   sent |-> [p \in {"start", "stop"} |-> {}],
   body |-> [p \in {"start", "stop"} |-> NoTimestamp]]

\* The retry policy run() hands to withRetry, the same for every phase.
RetryPolicy(config) ==
  [maxAttempts |-> config.maxRetryAttempts, backoffMs |-> config.retryBackoffMs,
   maxBackoffMs |-> config.maxRetryBackoffMs]

\* createDeploymentEvent: the event is stamped when it is built.
createDeploymentEvent(state, nowMs) == getCurrentTimestamp(nowMs)

\* sendChangeEvent answering with the timestamp of the event alone.
sendChangeEventResponseLocal(result, event) ==
  [type |-> "response", success |-> TRUE, event_id |-> result.id, timestamp |-> event]

\* sendChangeEvent on a 2xx response with the parsed body `result`.
sendChangeEventResponse(result, event) ==
  [type |-> "response", success |-> TRUE, event_id |-> result.id,
   timestamp |-> OrElse(result.timestamp, event)]

\* The catch block of run() with no core.setOutput('success', 'false').
runCatchSetsFailedOnly(r, error) ==
  [r EXCEPT !.pc = "failed",
            !.setFailed = IF isLast9Error(error) THEN error.name ELSE "UnknownError",
            !.setFailedMessage = IF isLast9Error(error) \/ error.message # ""
                                 THEN error.message ELSE "Unknown error occurred"]

\* The catch block of run(): the error is wrapped if it is no Last9Error,
\* setFailed is called with its name and message and the only output written
\* is success = 'false'.
runCatch(r, error) ==
  [r EXCEPT !.pc = "failed",
            !.setFailed = IF isLast9Error(error) THEN error.name ELSE "UnknownError",
            !.setFailedMessage = IF isLast9Error(error) \/ error.message # ""
                                 THEN error.message ELSE "Unknown error occurred",
            !.outputs = [@ EXCEPT !.success = "false"],
            !.successWrites = @ + 1]

\* The operation handed to withRetry for an event, stamping the payload anew.
sendOperationRebuilds(r, nowMs) == createDeploymentEvent(r.pc, nowMs)

\* The operation handed to withRetry for an event: it sends the event built
\* before withRetry was entered and reads no clock.
sendOperation(r, nowMs) == IF r.pc = "start" THEN r.startEvent ELSE r.stopEvent

\* The start phase begins, or is skipped, by config.eventState.
runEnterStart(r, nowMs) ==
  IF r.config.eventState \in {"start", "both"}
  THEN [r EXCEPT !.pc = "start", !.startEvent = createDeploymentEvent("start", nowMs)]
  ELSE [r EXCEPT !.pc = "stop", !.stopEvent = createDeploymentEvent("stop", nowMs)]

\* The stop phase begins, or is skipped, by config.eventState.
runEnterStop(r, nowMs) ==
  IF r.config.eventState \in {"stop", "both"}
  THEN [r EXCEPT !.pc = "stop", !.stopEvent = createDeploymentEvent("stop", nowMs)]
  ELSE [r EXCEPT !.pc = "outputs"]

\* run() going on to the events although the token's withRetry rejected.
runAfterTokenSwallows(r, w, nowMs) ==
  runEnterStart([r EXCEPT !.accessToken = IF w.status = "returned" THEN w.result.token ELSE 0],
                nowMs)

\* The token's withRetry has settled: the access token is kept and the first
\* configured phase begins, or the rejection lands in the catch block.
runAfterToken(r, w, nowMs) ==
  IF w.status = "returned"
  THEN runEnterStart([r EXCEPT !.accessToken = w.result.token], nowMs)
  ELSE runCatch(r, w.thrown)

\* run() with a try/catch of its own around the start phase.
runAfterStartGoesOn(r, w, nowMs) ==
  IF w.status = "returned"
  THEN runEnterStop([r EXCEPT !.startTimestamp = OrElse(w.result.timestamp, r.startEvent)],
                    nowMs)
  ELSE runEnterStop(r, nowMs)

\* The start send's withRetry has settled.
runAfterStart(r, w, nowMs) ==
  IF w.status = "returned"
  THEN runEnterStop([r EXCEPT !.startTimestamp = OrElse(w.result.timestamp, r.startEvent)],
                    nowMs)
  ELSE runCatch(r, w.thrown)

\* run() setting its outputs although the stop send failed.
runAfterStopIgnoresFailure(r, w) ==
  IF w.status = "returned"
  THEN [r EXCEPT !.pc = "outputs",
                 !.stopTimestamp = OrElse(w.result.timestamp, r.stopEvent)]
  ELSE [r EXCEPT !.pc = "outputs"]

\* The stop send's withRetry has settled.
runAfterStop(r, w) ==
  IF w.status = "returned"
  THEN [r EXCEPT !.pc = "outputs",
                 !.stopTimestamp = OrElse(w.result.timestamp, r.stopEvent)]
  ELSE runCatch(r, w.thrown)

\* "Set outputs": success, and each timestamp that is set.
runSetOutputs(r) ==
  [r EXCEPT !.pc = "done",
            !.successWrites = @ + 1,
            !.outputs = [success |-> "true",
                         start_timestamp |-> r.startTimestamp,
                         stop_timestamp |-> r.stopTimestamp]]

\* ------------------------------------ collectAttributes (attribute-collector.ts)
\* An attribute map is a function from the keys it holds to their values;
\* Undefined is the value of a configuration field that is not set.
Undefined == "undefined"

NoAttributes == [k \in {} |-> Undefined]

\* attributes[key] = value on an object literal: an own property is written,
\* but for the key '__proto__' the assignment runs the prototype setter of
\* Object.prototype, which ignores a string, number or boolean.
SetAttribute(attributes, key, value) ==
  IF key = "__proto__" THEN attributes
  ELSE [k \in DOMAIN attributes \cup {key} |-> IF k = key THEN value ELSE attributes[k]]

\* The attributes of the GitHub context in the order they are assigned, each
\* with the getter (1 getRepository, 2 getWorkflow, 3 getCommit, 4 getActor,
\* 5 getEvent) its value comes from.
GitHubAttributes ==
  <<[key |-> "repository", getter |-> 1], [key |-> "workflow", getter |-> 2],
    [key |-> "run_id", getter |-> 2], [key |-> "run_number", getter |-> 2],
    [key |-> "run_attempt", getter |-> 2], [key |-> "commit_sha", getter |-> 3],
    [key |-> "ref", getter |-> 3], [key |-> "commit_message", getter |-> 3],
    [key |-> "actor", getter |-> 4], [key |-> "event_name", getter |-> 5]>>

\* The value the context has for an attribute.
ContextValue(key) == "github"

\* How far the try block gets with a context whose getter number throwsAt
\* throws (0: nothing throws; 6: workflow.runId.toString() throws): the five
\* getters are called before the first assignment.
AssignmentsDone(throwsAt) ==
  CASE throwsAt = 0 -> Len(GitHubAttributes)
    [] throwsAt = 6 -> 2
    [] OTHER -> 0

RECURSIVE AssignGitHub(_, _)
AssignGitHub(attributes, n) ==
  IF n = 0 THEN attributes
  ELSE SetAttribute(AssignGitHub(attributes, n - 1), GitHubAttributes[n].key,
                    ContextValue(GitHubAttributes[n].key))

\* for (const [key, value] of Object.entries(customAttributes))
RECURSIVE MergeCustom(_, _, _)
MergeCustom(attributes, customAttributes, keys) ==
  IF keys = {} THEN attributes
  ELSE LET key == CHOOSE k \in keys : TRUE
       IN  MergeCustom(SetAttribute(attributes, key, customAttributes[key]),
                       customAttributes, keys \ {key})

\* collectAttributes: service_name and env are set first, then the context
\* attributes inside one try block whose catch only logs a warning, then the
\* custom attributes.
collectAttributes(context, config) ==
  LET seeded == SetAttribute(SetAttribute(NoAttributes, "service_name", config.serviceName),
                             "env", config.env)
      withGitHub == IF config.includeGitHub
                    THEN AssignGitHub(seeded, AssignmentsDone(context.throwsAt))
                    ELSE seeded
  IN  MergeCustom(withGitHub, config.customAttributes, DOMAIN config.customAttributes)

\* ------------------------------------------- PluginRegistry (registry.ts)
MaxInitializeCalls == 2

\* enum ProviderType: the types the model registers providers under.
ProviderTypes == {"api"}

\* The plugin objects there are: each has a name (metadata.name) and the
\* kind of plugin it is.
Plugins ==
  {[id |-> 1, kind |-> "event", name |-> "alpha"],
   [id |-> 2, kind |-> "event", name |-> "beta"],
   [id |-> 3, kind |-> "attribute", name |-> "gamma"],
   [id |-> 4, kind |-> "output", name |-> "delta"],
   [id |-> 5, kind |-> "telemetry", name |-> "epsilon"]}

PluginIds == {p.id : p \in Plugins}

\* The Maps initialize goes through, in its order.
Groups == <<"eventPlugins", "attributeProviders", "outputHandlers", "telemetryPlugins">>

\* {}: an object with no keys.  An object is a function from its keys.
EmptyObject == [k \in {} |-> ""]

\* {...a, ...b}: the keys of both, b's value where both have the key.
spread(a, b) == b @@ a

\* { enabled: true, ...(config.config[pluginName] || {}) }
pluginConfig(config, pluginName) ==
  spread("enabled" :> "true",
         IF pluginName \in DOMAIN config THEN config[pluginName] ELSE EmptyObject)

\* The values of the four Maps, in the order initialize goes through them.
allValues(reg) ==
  reg.eventPlugins \o reg.attributeProviders \o reg.outputHandlers \o reg.telemetryPlugins

\* No initialize call is running.  Of a call: where it is (awaiting a
\* plugin's initialize, awaiting initializePlugins of a group whose loop has
\* ended, resolved, rejected), the group it is at, the plugins of the group
\* as Array.from(map.values()) listed them, the index of the plugin awaited,
\* config.enabled, config.config, and what it threw.  Kept beside it: the
\* plugins the Maps held when it was called (atCall), the arrays it has
\* listed so far, one after the other (seen), and the calls of
\* plugin.initialize it has made, each with the config passed (log).
IdleInitialize ==
  [pc |-> "idle", group |-> 0, plugins |-> <<>>, index |-> 0, enabled |-> {},
   config |-> EmptyObject, thrown |-> "", atCall |-> <<>>, seen |-> <<>>, log |-> <<>>]

\* No dispose call is running.  Of a call: where it is (awaiting a plugin's
\* dispose, resolved, rejected), allPlugins, the index of the plugin awaited,
\* the plugins whose dispose it has called (log) and those it has logged a
\* warning for (warned).
IdleDisposal ==
  [pc |-> "idle", plugins |-> <<>>, index |-> 0, log |-> <<>>, warned |-> <<>>]

\* What the last register call threw: nothing (it returned), or the error of
\* the method `op`.
NoCall == [op |-> "", threw |-> FALSE, message |-> ""]

\* new PluginRegistry(): empty Maps (a Map as the sequence of its values in
\* insertion order; providers: 0 for no entry), initialized = false.  `inits`
\* counts the calls of each plugin's initialize and `initializeCalls` those
\* of the registry's.
NewRegistry ==
  [providers |-> [t \in ProviderTypes |-> 0],
   eventPlugins |-> <<>>, attributeProviders |-> <<>>, outputHandlers |-> <<>>,
   telemetryPlugins |-> <<>>, initialized |-> FALSE,
   inits |-> [id \in PluginIds |-> 0], initializeCalls |-> 0,
   call |-> IdleInitialize, last |-> NoCall, disposal |-> IdleDisposal]

\* map.set(plugin.metadata.name, plugin): a name that is there keeps its
\* place and gets the new value, a new name goes to the end.
mapSet(m, plugin) ==
  IF \E i \in DOMAIN m : m[i].name = plugin.name
  THEN [i \in DOMAIN m |-> IF m[i].name = plugin.name THEN plugin ELSE m[i]]
  ELSE Append(m, plugin)

\* registerProvider with no look at `initialized`.
registerProviderUnguarded(reg, type, provider) ==
  [reg EXCEPT !.providers[type] = provider,
              !.last = NoCall]

registerProvider(reg, type, provider) ==
  IF reg.initialized
  THEN [reg EXCEPT !.last = [op |-> "registerProvider", threw |-> TRUE,
                             message |-> "Cannot register provider after initialization"]]
  ELSE [reg EXCEPT !.providers[type] = provider,
                   !.last = NoCall]

\* The body the four register methods for plugins share: the Map and the
\* message differ.
registerPlugin(reg, map, op, message, plugin) ==
  IF reg.initialized
  THEN [reg EXCEPT !.last = [op |-> op, threw |-> TRUE, message |-> message]]
  ELSE [reg EXCEPT ![map] = mapSet(@, plugin),
                   !.last = NoCall]

registerEventPlugin(reg, plugin) ==
  registerPlugin(reg, "eventPlugins", "registerEventPlugin",
                 "Cannot register plugin after initialization", plugin)

registerAttributeProvider(reg, provider) ==
  registerPlugin(reg, "attributeProviders", "registerAttributeProvider",
                 "Cannot register provider after initialization", provider)

registerOutputHandler(reg, handler) ==
  registerPlugin(reg, "outputHandlers", "registerOutputHandler",
                 "Cannot register handler after initialization", handler)

registerTelemetryPlugin(reg, plugin) ==
  registerPlugin(reg, "telemetryPlugins", "registerTelemetryPlugin",
                 "Cannot register plugin after initialization", plugin)

\* The index of the first plugin at or after i whose name is enabled, 0 if
\* there is none: the loop of initializePlugins skipping disabled plugins.
RECURSIVE nextEnabled(_, _, _)
nextEnabled(plugins, i, enabled) ==
  IF i > Len(plugins) THEN 0
  ELSE IF plugins[i].name \in enabled THEN i
  ELSE nextEnabled(plugins, i + 1, enabled)

\* The loop with no look at config.enabled: the next plugin's initialize is
\* called whatever its name.
initializePluginsFromAll(reg, i) ==
  IF i > Len(reg.call.plugins)
  THEN [reg EXCEPT !.call.pc = "awaitGroup", !.call.index = 0]
  ELSE [reg EXCEPT !.call.pc = "awaitPlugin", !.call.index = i,
                   !.call.log =
                      Append(@, [id |-> reg.call.plugins[i].id,
                                 config |-> pluginConfig(reg.call.config,
                                                         reg.call.plugins[i].name)]),
                   !.inits[reg.call.plugins[i].id] = @ + 1]

\* The loop of initializePlugins from index i on, up to its next await: the
\* next enabled plugin's initialize is called, or the loop ends.
initializePluginsFrom(reg, i) ==
  LET j == nextEnabled(reg.call.plugins, i, reg.call.enabled)
  IN  IF j = 0
      THEN [reg EXCEPT !.call.pc = "awaitGroup", !.call.index = 0]
      ELSE [reg EXCEPT !.call.pc = "awaitPlugin", !.call.index = j,
                       !.call.log =
                          Append(@, [id |-> reg.call.plugins[j].id,
                                     config |-> pluginConfig(reg.call.config,
                                                             reg.call.plugins[j].name)]),
                       !.inits[reg.call.plugins[j].id] = @ + 1]

\* initializePlugins(Array.from(map.values()), ...) is called for group g.
initializeGroup(reg, g) ==
  initializePluginsFrom([reg EXCEPT !.call.group = g, !.call.plugins = reg[Groups[g]],
                                    !.call.seen = @ \o reg[Groups[g]]], 1)

\* initialize up to its first await.
initialize(reg, config) ==
  IF reg.initialized
  THEN [reg EXCEPT !.initializeCalls = @ + 1,
                   !.call = [IdleInitialize EXCEPT !.pc = "rejected",
                                                   !.thrown = "Registry already initialized"]]
  ELSE initializeGroup([reg EXCEPT !.initializeCalls = @ + 1,
                                   !.call = [IdleInitialize EXCEPT !.enabled = config.enabled,
                                                                   !.config = config.config,
                                                                   !.atCall = allValues(reg)]],
                       1)

\* The awaited plugin.initialize resolved: the loop goes on.
pluginInitializeResolved(reg) == initializePluginsFrom(reg, reg.call.index + 1)

\* The awaited plugin.initialize rejected: a PluginInitError is thrown, and
\* initialize logs and rethrows it.
pluginInitializeRejected(reg) ==
  [reg EXCEPT !.call.pc = "rejected", !.call.thrown = "PluginInitError"]

\* initializePlugins of the group has resolved: the next group, or after the
\* last one `this.initialized = true`.
initializeGroupDone(reg) ==
  IF reg.call.group < Len(Groups)
  THEN initializeGroup(reg, reg.call.group + 1)
  ELSE [reg EXCEPT !.initialized = TRUE, !.call.pc = "resolved"]

\* The loop of dispose from index i on, up to its next await: the next
\* plugin's dispose is called, or the loop has ended and dispose resolves.
disposeFrom(reg, i) ==
  IF i > Len(reg.disposal.plugins)
  THEN [reg EXCEPT !.disposal.pc = "resolved", !.disposal.index = 0]
  ELSE [reg EXCEPT !.disposal.pc = "awaitPlugin", !.disposal.index = i,
                   !.disposal.log = Append(@, reg.disposal.plugins[i].id)]

\* dispose up to its first await: allPlugins lists the Maps in reverse order.
dispose(reg) ==
  disposeFrom([reg EXCEPT !.disposal =
                 [IdleDisposal EXCEPT !.plugins =
                    reg.telemetryPlugins \o reg.outputHandlers
                      \o reg.attributeProviders \o reg.eventPlugins]], 1)

\* The awaited plugin.dispose resolved: the loop goes on.
pluginDisposeResolved(reg) == disposeFrom(reg, reg.disposal.index + 1)

\* The awaited plugin.dispose rejected and the error leaves dispose.
pluginDisposeRejectedRethrows(reg) == [reg EXCEPT !.disposal.pc = "rejected"]

\* The awaited plugin.dispose rejected: the catch logs a warning and the
\* loop goes on.
pluginDisposeRejected(reg) ==
  disposeFrom([reg EXCEPT !.disposal.warned =
                 Append(@, reg.disposal.plugins[reg.disposal.index].id)],
              reg.disposal.index + 1)

\* (a, b) => b.priority - a.priority
compare(a, b) == b.priority - a.priority

\* The sorted array with one more element x: x goes before the first element
\* that compare puts after it (compare(y, x) > 0), so after its equals.
insertSorted(sorted, x) ==
  LET after == {i \in DOMAIN sorted : compare(sorted[i], x) > 0}
      at == IF after = {} THEN Len(sorted) + 1
            ELSE CHOOSE i \in after : \A j \in after : i <= j
  IN  SubSeq(sorted, 1, at - 1) \o <<x>> \o SubSeq(sorted, at, Len(sorted))

\* array.sort(compare): a stable sort.
RECURSIVE sort(_)
sort(array) ==
  IF array = <<>> THEN <<>>
  ELSE insertSorted(sort(SubSeq(array, 1, Len(array) - 1)), array[Len(array)])

\* The providers in the order they are stored.
getAttributeProvidersUnsorted(reg, eventType) ==
  SelectSeq(reg.attributeProviders, LAMBDA provider : eventType \in provider.shouldProvide)

\* provider.shouldProvide(eventType) is true of the event types in the
\* provider's `shouldProvide`; array.filter is SelectSeq.
getAttributeProviders(reg, eventType) ==
  LET providers == SelectSeq(reg.attributeProviders,
                          LAMBDA provider : eventType \in provider.shouldProvide)
  IN  sort(providers)

\* ------------------------------------ MiddlewarePipeline (pipeline.ts)
MaxMiddleware == 4

\* The middleware objects there are.  What the execute of one does is its
\* script: it calls and awaits next() once for each "next", throws at a
\* "throw", and returns at the end; an error that comes out of next() comes
\* out of it.
Middlewares ==
  {[name |-> "twice", phase |-> "pre", priority |-> 20, script |-> <<"next", "next">>],
   [name |-> "halt", phase |-> "pre", priority |-> 10, script |-> <<>>],
   [name |-> "last", phase |-> "pre", priority |-> 5, script |-> <<"next">>],
   [name |-> "peer", phase |-> "pre", priority |-> 5, script |-> <<"next">>],
   [name |-> "log", phase |-> "post", priority |-> 10, script |-> <<"next">>],
   [name |-> "check", phase |-> "post", priority |-> 5, script |-> <<"throw">>],
   [name |-> "report", phase |-> "error", priority |-> 10, script |-> <<"next">>],
   [name |-> "mask", phase |-> "error", priority |-> 5, script |-> <<"next", "throw">>]}

\* No execute call is running.  Of a call: where it is (awaiting the
\* operation, resolved, rejected), what happened so far in order (a
\* middleware ran, a middleware called next, the operation was invoked,
\* returned or threw), and who threw the error it rejected with ("operation"
\* or the name of a middleware).
IdleExecute == [pc |-> "idle", trace |-> <<>>, thrownBy |-> ""]

\* new MiddlewarePipeline()
NewPipeline == [middleware |-> <<>>, call |-> IdleExecute]

Event(ev, name, phase) == [ev |-> ev, name |-> name, phase |-> phase]

\* register(middleware): this.middleware.push(middleware)
register(p, middleware) == [p EXCEPT !.middleware = Append(@, middleware)]

\* The closure next of executePhase and the execute of a middleware from the
\* step k of its script on.  st holds `index`, the trace, and whether an
\* error is on its way out and whose.
RECURSIVE next(_, _)
RECURSIVE middlewareExecute(_, _, _, _)
next(phaseMiddleware, st) ==
  IF st.index >= Len(phaseMiddleware) THEN st
  ELSE LET middleware == phaseMiddleware[st.index + 1]
       IN  middlewareExecute(phaseMiddleware, middleware, 1,
                             [st EXCEPT !.index = @ + 1,
                                        !.trace = Append(@, Event("run", middleware.name,
                                                                  middleware.phase))])

middlewareExecute(phaseMiddleware, middleware, k, st) ==
  IF k > Len(middleware.script) THEN st
  ELSE IF middleware.script[k] = "throw"
       THEN [st EXCEPT !.threw = TRUE, !.thrownBy = middleware.name]
       ELSE LET after == next(phaseMiddleware,
                              [st EXCEPT !.trace = Append(@, Event("next", middleware.name,
                                                                   middleware.phase))])
            IN  IF after.threw THEN after
                ELSE middlewareExecute(phaseMiddleware, middleware, k + 1, after)

\* this.middleware.filter(m => m.phase === phase).sort(...)
phaseMiddlewareOf(p, phase) == sort(SelectSeq(p.middleware, LAMBDA m : m.phase = phase))

\* executePhase(phase, context), after what `trace` tells.
executePhase(p, phase, trace) ==
  LET phaseMiddleware == phaseMiddlewareOf(p, phase)
      st == [index |-> 0, trace |-> trace, threw |-> FALSE, thrownBy |-> ""]
  IN  IF Len(phaseMiddleware) = 0 THEN st ELSE next(phaseMiddleware, st)

\* The catch block of execute: the error phase runs and the error caught is
\* thrown again, unless the error phase threw.
executeCatch(p, trace, thrownBy) ==
  LET st == executePhase(p, "error", trace)
  IN  [p EXCEPT !.call = [pc |-> "rejected", trace |-> st.trace,
                          thrownBy |-> IF st.threw THEN st.thrownBy ELSE thrownBy]]

\* execute up to `await operation()`.
execute(p) ==
  LET st == executePhase(p, "pre", <<>>)
  IN  IF st.threw THEN executeCatch(p, st.trace, st.thrownBy)
      ELSE [p EXCEPT !.call = [pc |-> "operation",
                               trace |-> Append(st.trace, Event("operation", "", "")),
                               thrownBy |-> ""]]

\* The operation resolved: the post phase, then the result is returned.
operationResolved(p) ==
  LET st == executePhase(p, "post", Append(p.call.trace, Event("returned", "", "")))
  IN  IF st.threw THEN executeCatch(p, st.trace, st.thrownBy)
      ELSE [p EXCEPT !.call = [pc |-> "resolved", trace |-> st.trace, thrownBy |-> ""]]

\* The operation rejected.
operationRejected(p) ==
  executeCatch(p, Append(p.call.trace, Event("threw", "", "")), "operation")

\* ------------------------------------------------------------ SpecToken
\* A TokenManager used by callers that call getAccessToken and clearCache in
\* any order while the clock advances; the ApiClient behind it answers each
\* exchange with a token response or rejects it with any error.
BufferChoices == {0, 1, 2}

ClockSeconds == (0 .. MaxSec) \cup {3299, 3300}

ExpirySeconds == (0 .. MaxSec) \cup {3600}

TimePoints == {sec * MsPerSecond + ms : sec \in ClockSeconds, ms \in {0, 999}}

\* What a rejected exchange is rejected with: an ApiError, a ServerError, a
\* NetworkError, an Error that is no Last9Error, or a value that is no Error.
ExchangeErrors(obj) ==
  {makeRequestError(tr, obj, 0) :
     tr \in {t \in FailureTransports :
               t.status \in {0, 401, 503} /\ t.kind # "abort" /\ ~t.timeoutInMessage}}
  \cup {NonError(obj)}

InitToken ==
  /\ now = 0
  /\ retry = IdleRetry
  /\ opLog = <<>>
  /\ cache = EmptyCache
  /\ \E b \in BufferChoices : tm = NewTokenManager(b)
  /\ run = IdleRun
  /\ req = IdleRequest
  /\ registry = NewRegistry
  /\ pipeline = NewPipeline

TMGetAccessToken(c, r) ==
  /\ tm.calls[c].status # "exchanging"
  /\ LET res == getAccessTokenEnter(tm, cache, c, r, now)
     IN  res.tm.exchanges <= MaxExchanges /\ tm' = res.tm /\ cache' = res.cache
  /\ UNCHANGED <<now, retry, opLog, run>>
  /\ UNCHANGED <<req, registry, pipeline>>

TMExchangeResolves(c, expires_at, newRefresh) ==
  /\ tm.calls[c].status = "exchanging"
  /\ LET result == [access_token |-> tm.nextObj, refresh_token |-> newRefresh,
                    expires_at |-> Num(expires_at)]
         res == getAccessTokenResolved(tm, cache, c,
                  refreshAccessTokenResponse(result, tm.calls[c].refreshToken), now)
     IN  tm' = res.tm /\ cache' = res.cache
  /\ UNCHANGED <<now, retry, opLog, run>>
  /\ UNCHANGED <<req, registry, pipeline>>

TMExchangeRejects(c, error) ==
  /\ tm.calls[c].status = "exchanging"
  /\ LET res == getAccessTokenRejected(tm, cache, c, error, now)
     IN  tm' = res.tm /\ cache' = res.cache
  /\ UNCHANGED <<now, retry, opLog, run>>
  /\ UNCHANGED <<req, registry, pipeline>>

TMClearCache ==
  /\ cache' = clearCache(cache)
  /\ UNCHANGED <<now, retry, opLog, tm, run>>
  /\ UNCHANGED <<req, registry, pipeline>>

Tick ==
  /\ \E t \in TimePoints : t > now /\ now' = t
  /\ UNCHANGED <<retry, opLog, cache, tm, run>>
  /\ UNCHANGED <<req, registry, pipeline>>

NextToken ==
  \/ \E c \in Callers, r \in RefreshTokens : TMGetAccessToken(c, r)
  \/ \E c \in Callers, e \in ExpirySeconds : TMExchangeResolves(c, e, "")
  \/ \E c \in Callers : \E error \in ExchangeErrors(1) : TMExchangeRejects(c, error)
  \/ TMClearCache
  \/ Tick

SpecToken == InitToken /\ [][NextToken]_vars

\* ------------------------------------------------- TokenManager: the claims
BufferMs == tm.expiryBufferSeconds * MsPerSecond

\* Caller c enters getAccessToken in this step.
Enters(c) == tm.calls[c].status # "exchanging" /\ tm'.calls[c] # tm.calls[c]

\* Caller c's getAccessToken returns in this step.
Returns(c) == tm'.calls[c].status = "returned" /\ tm'.calls[c] # tm.calls[c]

\* Caller c's getAccessToken rejects in this step.
Rejects(c) == tm.calls[c].status = "exchanging" /\ tm'.calls[c].status = "thrown"

\* C5: while an entry with expiry E is cached for a refresh token, a
\* getAccessToken call with that token at now < E - bufferSeconds returns the
\* cached access token and makes no exchange call, and a call at
\* now >= E - bufferSeconds makes a new exchange call.
C5_CachedUntilBuffer ==
  [][\A c \in Callers :
       LET k == getCacheKey(tm'.calls[c].refreshToken)
       IN  (Enters(c) /\ cache[k] # NoEntry) =>
             /\ (now < cache[k].expiresAt - BufferMs) =>
                  /\ tm'.calls[c].status = "returned"
                  /\ tm'.calls[c].value = cache[k].accessToken
                  /\ tm'.exchanges = tm.exchanges
                  /\ cache' = cache
             /\ (now >= cache[k].expiresAt - BufferMs) =>
                  /\ tm'.calls[c].status = "exchanging"
                  /\ tm'.exchanges = tm.exchanges + 1]_vars

\* The boundary of C5: an entry stored at time 0 with expiry 3600 s and a
\* buffer of 300 s is served from the cache at 3299.999 s.
C5_Witness ==
  \E c \in Callers :
    /\ tm.calls[c].status = "returned" /\ tm.calls[c].via = "cache"
    /\ tm.expiryBufferSeconds = 300
    /\ now = 3299 * MsPerSecond + 999
    /\ cache[getCacheKey(tm.calls[c].refreshToken)].expiresAt = 3600 * MsPerSecond
    /\ cache[getCacheKey(tm.calls[c].refreshToken)].cachedAt = 0

\* No CachedToken object changes: a key's entry is replaced by a new object.
NeverMutated ==
  \A k \in CacheKeys :
    (cache[k] # NoEntry /\ cache'[k] # NoEntry /\ cache'[k].obj = cache[k].obj)
      => cache'[k] = cache[k]

C7_ExchangeFailureEvicts ==
  [][\A c \in Callers :
       Rejects(c) =>
         LET k == getCacheKey(tm.calls[c].refreshToken)
         IN  /\ cache'[k] = NoEntry
             /\ \A k2 \in CacheKeys \ {k} : cache'[k2] = cache[k2]
             /\ tm'.calls[c].thrown.name = "TokenExchangeError"
             /\ tm'.calls[c].thrown.code = "TOKEN_EXCHANGE_ERROR"
             /\ ~isRetryableError(tm'.calls[c].thrown)
             /\ tm'.calls[c].thrown # tm'.calls[c].cause]_vars

\* An exchange failed with a transient error while another key held an entry.
C7_Witness ==
  \E c \in Callers :
    /\ tm.calls[c].status = "thrown"
    /\ isRetryableError(tm.calls[c].cause)
    /\ cache[getCacheKey(tm.calls[c].refreshToken)] = NoEntry
    /\ \E k2 \in CacheKeys : cache[k2] # NoEntry

\* withRetry has returned or thrown.
Settled == retry.status \in {"returned", "thrown"}

\* ------------------------------------------------------------ SpecRetry
\* One withRetry call around an operation that resolves or rejects as it
\* likes; every invocation yields a new result or error object.
OperationErrors(obj) ==
  {ConfigError(obj), NetworkError(obj), ServerError(503, obj), ApiError(404, obj), RawError(obj)}

OperationOutcomes(obj) ==
  {Resolved([type |-> "result", obj |-> obj])} \cup {Rejected(e) : e \in OperationErrors(obj)}

RetryConfigs ==
  [maxAttempts : 0 .. MaxAttempts, backoffMs : {10}, maxBackoffMs : {25}]

InitRetry ==
  /\ now = 0
  /\ \E config \in RetryConfigs : retry = StartRetry(config)
  /\ opLog = <<>>
  /\ cache = EmptyCache
  /\ tm = NewTokenManager(0)
  /\ run = IdleRun
  /\ req = IdleRequest
  /\ registry = NewRegistry
  /\ pipeline = NewPipeline

\* for (...; attempt < config.maxAttempts; ...) { try { await operation()
RetryInvoke ==
  /\ retry.status = "loop"
  /\ retry.attempt < retry.config.maxAttempts
  /\ retry' = withRetryInvoke(retry)
  /\ UNCHANGED <<now, opLog, cache, tm, run>>
  /\ UNCHANGED <<req, registry, pipeline>>

\* The awaited operation settles.
RetryOperationSettles(outcome, random) ==
  /\ retry.status = "awaiting"
  /\ retry' = withRetryTry(retry, outcome, random)
  /\ opLog' = Append(opLog, outcome)
  /\ UNCHANGED <<now, cache, tm, run>>
  /\ UNCHANGED <<req, registry, pipeline>>

\* The sleep ends after backoffTime.
RetrySleepDone ==
  /\ retry.status = "sleeping"
  /\ retry' = withRetrySleepDone(retry)
  /\ now' = now + retry.backoffTime
  /\ UNCHANGED <<opLog, cache, tm, run>>
  /\ UNCHANGED <<req, registry, pipeline>>

\* The loop ends without a return or a throw from its body.
RetryExhausted ==
  /\ retry.status = "loop"
  /\ ~(retry.attempt < retry.config.maxAttempts)
  /\ retry' = withRetryExhausted(retry)
  /\ UNCHANGED <<now, opLog, cache, tm, run>>
  /\ UNCHANGED <<req, registry, pipeline>>

NextRetry ==
  \/ RetryInvoke
  \/ \E outcome \in OperationOutcomes(retry.calls), random \in RandomTenths :
       RetryOperationSettles(outcome, random)
  \/ RetrySleepDone
  \/ RetryExhausted

SpecRetry == InitRetry /\ [][NextRetry]_vars

\* ---------------------------------------------------------- SpecBackoff
\* calculateBackoff called once with an attempt number, a base, a maximum no
\* smaller than the base, and a jitter draw.
BackoffBases == {0, 1, 10, 1000}

BackoffMaxima(baseMs) == {baseMs, 2 * baseMs + 5, 30000}

InitBackoff ==
  /\ now = 0
  /\ retry = IdleRetry
  /\ opLog = <<>>
  /\ cache = EmptyCache
  /\ tm = NewTokenManager(0)
  /\ run = IdleRun
  /\ req = IdleRequest
  /\ registry = NewRegistry
  /\ pipeline = NewPipeline

BackoffCall(attemptNumber, baseMs, maxMs, random) ==
  /\ opLog = <<>>
  /\ opLog' = <<[op |-> "calculateBackoff", attemptNumber |-> attemptNumber,
                 baseMs |-> baseMs, maxMs |-> maxMs, random |-> random,
                 exponential |-> exponential(attemptNumber, baseMs),
                 jitter |-> jitter(attemptNumber, baseMs, random),
                 result |-> calculateBackoff(attemptNumber, baseMs, maxMs, random)]>>
  /\ UNCHANGED <<now, retry, cache, tm, run>>
  /\ UNCHANGED <<req, registry, pipeline>>

NextBackoff ==
  \E attemptNumber \in 0 .. MaxAttempts + 1, baseMs \in BackoffBases, random \in RandomTenths :
    \E maxMs \in BackoffMaxima(baseMs) :
      BackoffCall(attemptNumber, baseMs, maxMs, random)

SpecBackoff == InitBackoff /\ [][NextBackoff]_vars

\* ------------------------------------------------------------------ Spec
\* One invocation of run(): the configuration is loaded, a TokenManager is
\* made, and the token exchange and the configured sends go through withRetry
\* while the API answers each request as it likes.
RunRefreshToken == "rtA"

\* The inputs the action is started with; "" is an input that is not given.
RunInputs ==
  [refresh_token : {"", RunRefreshToken}, org_slug : {"", "acme"}, env : {"", "production"},
   event_state : {"", "start", "stop", "both", "BOTH ", "deploy"},
   max_retry_attempts : {NoInput} \cup {NumberInput(n) : n \in 0 .. MaxAttempts},
   retry_backoff_ms : {NumberInput(10)}, max_retry_backoff_ms : {NumberInput(25)}]

\* The expiries the token endpoint answers with: one inside the buffer of
\* 300 s at every instant of the run, one an hour away.
RunExpirySeconds == {0, 3600}

\* How long a request takes to settle.
Latencies == {1}

\* What a 2xx body of the event endpoint carries: a timestamp or none.
EventBodies(nowMs) ==
  {[id |-> "ev", timestamp |-> ts] : ts \in {NoTimestamp, ServerTimestamp(nowMs)}}

Init ==
  /\ now = 0
  /\ retry = IdleRetry
  /\ opLog = <<>>
  /\ cache = EmptyCache
  /\ tm = NewTokenManager(0)
  /\ run = [IdleRun EXCEPT !.pc = "config"]
  /\ req = IdleRequest
  /\ registry = NewRegistry
  /\ pipeline = NewPipeline

\* loadConfig returns; the client and the TokenManager (buffer 300 s) are
\* made, collectAttributes returns and withRetry is entered for the token
\* exchange.
RunLoadConfig(inputs) ==
  /\ run.pc = "config"
  /\ loadConfig(inputs).ok
  /\ run' = [run EXCEPT !.pc = "token", !.config = loadConfig(inputs).config,
                        !.env = inputs.env, !.phaseResult.config = "returned"]
  /\ tm' = NewTokenManager(300)
  /\ cache' = EmptyCache
  /\ retry' = StartRetry(RetryPolicy(loadConfig(inputs).config))
  /\ UNCHANGED <<now, opLog>>
  /\ UNCHANGED <<req, registry, pipeline>>

\* loadConfig throws (a required input is missing, event_state is invalid).
RunLoadConfigThrows(inputs) ==
  /\ run.pc = "config"
  /\ ~loadConfig(inputs).ok
  /\ run' = [runCatch(run, loadConfig(inputs).error)
               EXCEPT !.env = inputs.env, !.phaseResult.config = "thrown"]
  /\ UNCHANGED <<now, retry, opLog, cache, tm>>
  /\ UNCHANGED <<req, registry, pipeline>>

\* withRetry invokes tokenManager.getAccessToken(config.refreshToken).
RunInvokeToken ==
  /\ run.pc = "token"
  /\ retry.status = "loop"
  /\ retry.attempt < retry.config.maxAttempts
  /\ retry' = withRetryInvoke(retry)
  /\ LET res == getAccessTokenEnter(tm, cache, 1, run.config.refreshToken, now)
     IN  /\ tm' = res.tm
         /\ cache' = res.cache
         /\ run' = [run EXCEPT !.netCalls.token = @ + (res.tm.exchanges - tm.exchanges),
                               !.inFlight = @ + (res.tm.exchanges - tm.exchanges)]
  /\ UNCHANGED <<now, opLog>>
  /\ UNCHANGED <<req, registry, pipeline>>

\* getAccessToken settles: with the cached token, or the exchange resolved.
RunTokenResolves(expires_at, latency) ==
  /\ run.pc = "token"
  /\ retry.status = "awaiting"
  /\ IF tm.calls[1].status = "returned"
     THEN /\ retry' = withRetryTry(retry, Resolved([type |-> "token", token |-> tm.calls[1].value]), 0)
          /\ UNCHANGED <<now, cache, tm, run>>
     ELSE LET result == [access_token |-> tm.nextObj, refresh_token |-> "",
                         expires_at |-> Num(expires_at)]
              res == getAccessTokenResolved(tm, cache, 1,
                       refreshAccessTokenResponse(result, tm.calls[1].refreshToken),
                       now + latency)
          IN  /\ tm' = res.tm
              /\ cache' = res.cache
              /\ now' = now + latency
              /\ retry' = withRetryTry(retry,
                            Resolved([type |-> "token", token |-> res.tm.calls[1].value]), 0)
              /\ run' = [run EXCEPT !.inFlight = @ - 1]
  /\ UNCHANGED opLog
  /\ UNCHANGED <<req, registry, pipeline>>

\* The exchange request fails and getAccessToken rejects.
RunTokenRejects(transport, latency, random) ==
  /\ run.pc = "token"
  /\ retry.status = "awaiting"
  /\ tm.calls[1].status = "exchanging"
  /\ LET error == makeRequestError(transport, tm.exchanges, now + latency)
         res == getAccessTokenRejected(tm, cache, 1, error, now + latency)
     IN  /\ tm' = res.tm
         /\ cache' = res.cache
         /\ retry' = withRetryTry(retry, Rejected(res.tm.calls[1].thrown), random)
         /\ run' = [run EXCEPT !.causes.token = @ \cup {isRetryableError(error)},
                               !.inFlight = @ - 1]
  /\ now' = now + latency
  /\ UNCHANGED opLog
  /\ UNCHANGED <<req, registry, pipeline>>

\* withRetry invokes apiClient.sendChangeEvent for the phase's event.
RunInvokeSend ==
  /\ run.pc \in {"start", "stop"}
  /\ retry.status = "loop"
  /\ retry.attempt < retry.config.maxAttempts
  /\ retry' = withRetryInvoke(retry)
  /\ run' = [run EXCEPT !.netCalls[run.pc] = @ + 1, !.inFlight = @ + 1,
                        !.sent[run.pc] = @ \cup {sendOperation(run, now)}]
  /\ UNCHANGED <<now, opLog, cache, tm>>
  /\ UNCHANGED <<req, registry, pipeline>>

\* The event request is answered 2xx with a JSON body.
RunSendResolves(result, latency) ==
  /\ run.pc \in {"start", "stop"}
  /\ retry.status = "awaiting"
  /\ retry' = withRetryTry(retry,
                Resolved(sendChangeEventResponse(result,
                           IF run.pc = "start" THEN run.startEvent ELSE run.stopEvent)), 0)
  /\ run' = [run EXCEPT !.inFlight = @ - 1, !.body[run.pc] = result.timestamp]
  /\ now' = now + latency
  /\ UNCHANGED <<opLog, cache, tm>>
  /\ UNCHANGED <<req, registry, pipeline>>

\* The event request fails.
RunSendRejects(transport, latency, random) ==
  /\ run.pc \in {"start", "stop"}
  /\ retry.status = "awaiting"
  /\ LET error == makeRequestError(transport, run.netCalls[run.pc], now + latency)
     IN  /\ retry' = withRetryTry(retry, Rejected(error), random)
         /\ run' = [run EXCEPT !.causes[run.pc] = @ \cup {isRetryableError(error)},
                               !.inFlight = @ - 1]
  /\ now' = now + latency
  /\ UNCHANGED <<opLog, cache, tm>>
  /\ UNCHANGED <<req, registry, pipeline>>

\* The sleep between two attempts ends.
RunSleepDone ==
  /\ run.pc \in Phases
  /\ retry.status = "sleeping"
  /\ retry' = withRetrySleepDone(retry)
  /\ now' = now + retry.backoffTime
  /\ UNCHANGED <<opLog, cache, tm, run>>
  /\ UNCHANGED <<req, registry, pipeline>>

\* The loop of withRetry ends without a return or a throw from its body.
RunRetryExhausted ==
  /\ run.pc \in Phases
  /\ retry.status = "loop"
  /\ ~(retry.attempt < retry.config.maxAttempts)
  /\ retry' = withRetryExhausted(retry)
  /\ UNCHANGED <<now, opLog, cache, tm, run>>
  /\ UNCHANGED <<req, registry, pipeline>>

\* The awaited withRetry of the token exchange settles.
RunTokenSettled ==
  /\ run.pc = "token"
  /\ Settled
  /\ run' = [runAfterToken(run, retry, now) EXCEPT !.phaseResult.token = retry.status]
  /\ retry' = IF run'.pc \in Phases THEN StartRetry(RetryPolicy(run.config)) ELSE IdleRetry
  /\ UNCHANGED <<now, opLog, cache, tm>>
  /\ UNCHANGED <<req, registry, pipeline>>

\* The awaited withRetry of the start send settles.
RunStartSettled ==
  /\ run.pc = "start"
  /\ Settled
  /\ run' = [runAfterStart(run, retry, now) EXCEPT !.phaseResult.start = retry.status]
  /\ retry' = IF run'.pc \in Phases THEN StartRetry(RetryPolicy(run.config)) ELSE IdleRetry
  /\ UNCHANGED <<now, opLog, cache, tm>>
  /\ UNCHANGED <<req, registry, pipeline>>

\* The awaited withRetry of the stop send settles.
RunStopSettled ==
  /\ run.pc = "stop"
  /\ Settled
  /\ run' = [runAfterStop(run, retry) EXCEPT !.phaseResult.stop = retry.status]
  /\ retry' = IdleRetry
  /\ UNCHANGED <<now, opLog, cache, tm>>
  /\ UNCHANGED <<req, registry, pipeline>>

\* The outputs are set at the end of the try block.
RunSetOutputs ==
  /\ run.pc = "outputs"
  /\ run' = runSetOutputs(run)
  /\ UNCHANGED <<now, retry, opLog, cache, tm>>
  /\ UNCHANGED <<req, registry, pipeline>>

Next ==
  \/ \E inputs \in RunInputs : RunLoadConfig(inputs)
  \/ \E inputs \in RunInputs : RunLoadConfigThrows(inputs)
  \/ RunInvokeToken
  \/ \E e \in RunExpirySeconds, l \in Latencies : RunTokenResolves(e, l)
  \/ \E tr \in FailureTransports, l \in Latencies, random \in RandomTenths :
       RunTokenRejects(tr, l, random)
  \/ RunInvokeSend
  \/ \E result \in EventBodies(now), l \in Latencies : RunSendResolves(result, l)
  \/ \E tr \in SendFailureTransports, l \in Latencies, random \in RandomTenths :
       RunSendRejects(tr, l, random)
  \/ RunSleepDone
  \/ RunRetryExhausted
  \/ RunTokenSettled
  \/ RunStartSettled
  \/ RunStopSettled
  \/ RunSetOutputs

Spec == Init /\ [][Next]_vars

\* ------------------------------------------------------------ run: the claims
RunEnded == run.pc \in {"done", "failed"}

\* C4 as stated: a phase (the token exchange or an event send) whose requests
\* all fail with transient errors fails only after maxAttempts requests with a
\* sleep between each two.
C4_TransientRetriedInEveryPhase ==
  \A p \in Phases :
    (run.pc = p /\ retry.status = "thrown" /\ run.causes[p] = {TRUE}
       /\ run.config.maxRetryAttempts >= 1) =>
      /\ run.netCalls[p] = run.config.maxRetryAttempts
      /\ retry.sleeps = run.config.maxRetryAttempts - 1

\* C8: if the token acquisition fails, run() ends failed (setFailed, success
\* 'false') and sendChangeEvent is never called, whatever the event state.
C8_TokenFailureSendsNothing ==
  run.phaseResult.token = "thrown" =>
    /\ run.pc = "failed"
    /\ run.setFailed # ""
    /\ run.outputs.success = "false"
    /\ run.netCalls.start = 0
    /\ run.netCalls.stop = 0

\* A run configured for both events has failed at the token exchange.
C8_Witness ==
  /\ run.pc = "failed"
  /\ run.phaseResult.token = "thrown"
  /\ run.config.eventState = "both"
  /\ run.netCalls.token = 1

\* C9 as stated: with event state 'both', once the token is acquired the stop
\* send is attempted whether or not the start send succeeded.
C9_Original ==
  (run.config.eventState = "both" /\ run.phaseResult.token = "returned" /\ RunEnded) =>
    run.netCalls.stop >= 1

\* C9 amended: with event state 'both', the stop send is attempted if and only
\* if the token was acquired and the start send succeeded; a failed start send
\* ends the invocation before the stop phase.
C9_StopOnlyAfterStartSucceeded ==
  run.config.eventState = "both" =>
    /\ run.netCalls.stop >= 1 =>
         (run.phaseResult.token = "returned" /\ run.phaseResult.start = "returned")
    /\ (RunEnded /\ run.phaseResult.start = "returned") => run.netCalls.stop >= 1

\* With 'both', the token was acquired, the start send failed and the run
\* ended without a stop send.
C9_Witness ==
  /\ run.config.eventState = "both"
  /\ run.phaseResult.token = "returned"
  /\ run.phaseResult.start = "thrown"
  /\ run.pc = "failed"
  /\ run.netCalls.start >= 1
  /\ run.netCalls.stop = 0

\* C10 as stated: a failed invocation reports success 'false' together with
\* every timestamp obtained before the failure.
C10_FailureKeepsTimestamps ==
  run.pc = "failed" =>
    /\ run.outputs.success = "false"
    /\ run.outputs.start_timestamp = run.startTimestamp
    /\ run.outputs.stop_timestamp = run.stopTimestamp

\* The event a phase was built with.
EventOf(p) == IF p = "start" THEN run.startEvent ELSE run.stopEvent

\* The phases config.eventState asks for.
Configured(p) ==
  IF p = "start" THEN run.config.eventState \in {"start", "both"}
  ELSE run.config.eventState \in {"stop", "both"}

\* C11: when every configured phase has succeeded, success is 'true', the
\* start_timestamp output is written exactly when the event state is start or
\* both and stop_timestamp exactly when it is stop or both, and each written
\* timestamp is the one of the 2xx body when the body has one and the one of
\* the locally built event otherwise.
C11_SuccessOutputs ==
  run.pc = "done" =>
    /\ run.outputs.success = "true"
    /\ (run.outputs.start_timestamp # NoTimestamp) <=> Configured("start")
    /\ (run.outputs.stop_timestamp # NoTimestamp) <=> Configured("stop")
    /\ Configured("start") =>
         run.outputs.start_timestamp =
           (IF run.body.start # NoTimestamp THEN run.body.start ELSE run.startEvent)
    /\ Configured("stop") =>
         run.outputs.stop_timestamp =
           (IF run.body.stop # NoTimestamp THEN run.body.stop ELSE run.stopEvent)

\* A run of both events is done; the start body had no timestamp and the stop
\* body had one.
C11_Witness ==
  /\ run.pc = "done"
  /\ run.config.eventState = "both"
  /\ run.body.start = NoTimestamp
  /\ run.outputs.start_timestamp = run.startEvent
  /\ run.body.stop # NoTimestamp
  /\ run.outputs.stop_timestamp = run.body.stop

\* C12: at most one request is in flight at any moment; no event request is
\* started before getAccessToken has returned an access token; with 'both', no
\* stop request is started before the withRetry of the start send has ended.
C12_OneRequestAtATime ==
  /\ run.inFlight <= 1
  /\ (run.netCalls.start + run.netCalls.stop >= 1) =>
       (run.phaseResult.token = "returned" /\ run.accessToken # 0)
  /\ (run.config.eventState = "both" /\ run.netCalls.stop >= 1) =>
       (run.phaseResult.start = "returned" /\ run.pc # "start")
  /\ (run.inFlight = 1 /\ run.pc \in Phases) => retry.status = "awaiting"

\* A stop request is in flight after a start phase that needed a retry.
C12_Witness ==
  /\ run.config.eventState = "both"
  /\ run.pc = "stop"
  /\ run.inFlight = 1
  /\ run.netCalls.start >= 2
  /\ run.netCalls.stop >= 2

PhaseRank(pc) ==
  CASE pc = "config" -> 0
    [] pc = "token" -> 1
    [] pc = "start" -> 2
    [] pc = "stop" -> 3
    [] pc = "outputs" -> 4
    [] pc = "done" -> 5
    [] OTHER -> 6

\* A phase's withRetry has thrown, now or earlier.
PhaseFailed == retry.status = "thrown" \/ \E p \in Phases : run.phaseResult[p] = "thrown"

\* C13: run() never goes back to a phase it has left, and failure is final:
\* once a phase's withRetry has thrown, no token exchange and no event request
\* is started, the only place run() goes to is the failed end, and success is
\* never 'true'.
C13_FailedIsAbsorbing ==
  [][/\ PhaseRank(run'.pc) >= PhaseRank(run.pc)
     /\ run.pc = "failed" => UNCHANGED vars
     /\ PhaseFailed =>
          /\ run'.netCalls = run.netCalls
          /\ tm'.exchanges = tm.exchanges
          /\ run'.pc \in {run.pc, "failed"}
          /\ run'.outputs.success # "true"
          /\ PhaseFailed']_vars

\* A run of both events has failed at the stop send, retries exhausted, after
\* the start send succeeded.
C13_Witness ==
  /\ run.pc = "failed"
  /\ run.phaseResult.start = "returned"
  /\ run.phaseResult.stop = "thrown"
  /\ run.netCalls.stop = run.config.maxRetryAttempts
  /\ run.netCalls.stop >= 2
  /\ run.outputs.success = "false"

\* C15 as stated: when the env input is missing, loadConfig throws and the
\* invocation ends failed with no request made.
C15_MissingEnvFailsConfig ==
  (run.env = "" /\ run.phaseResult.config # "") =>
    /\ run.phaseResult.config = "thrown"
    /\ \A p \in Phases : run.netCalls[p] = 0

\* C17: every request of a phase carries the event built when the phase was
\* entered, the same at each attempt; with 'both' the stop event is built only
\* after the start send has succeeded and its timestamp is not earlier than
\* the start event's.
C17_EventBuiltOncePerPhase ==
  /\ \A p \in {"start", "stop"} :
       /\ run.sent[p] \subseteq {EventOf(p)}
       /\ run.netCalls[p] >= 1 => (run.sent[p] = {EventOf(p)} /\ EventOf(p).src = "local")
       /\ EventOf(p).at <= now
  /\ (run.config.eventState = "both" /\ run.stopEvent # NoTimestamp) =>
       /\ run.phaseResult.start = "returned"
       /\ run.startEvent # NoTimestamp
       /\ run.stopEvent.at >= run.startEvent.at

\* Both events were sent, the start event at a second attempt made after the
\* clock had moved on from the instant the event was built.
C17_Witness ==
  /\ run.config.eventState = "both"
  /\ run.netCalls.start >= 2
  /\ run.netCalls.stop >= 2
  /\ run.sent.start = {run.startEvent}
  /\ run.sent.stop = {run.stopEvent}
  /\ run.stopEvent.at > run.startEvent.at
  /\ now > run.stopEvent.at

\* What the catch block of run() reports for an error: its name or its
\* message contains 'Unauthorized'.
ReportsUnauthorized(error) ==
  \/ runCatch(run, error).setFailed = "UnauthorizedError"
  \/ runCatch(run, error).setFailedMessage = "Unauthorized"

\* C19 as stated: an event send answered 401 fails after exactly one request
\* and no sleep, and the error run() reports names it Unauthorized.
C19_Send401ReportsUnauthorized ==
  \A p \in {"start", "stop"} :
    (run.pc = p /\ retry.status = "thrown" /\ retry.thrown.statusCode = 401
       /\ run.causes[p] = {FALSE} /\ run.config.maxRetryAttempts >= 1) =>
      /\ run.netCalls[p] = 1
      /\ retry.sleeps = 0
      /\ ReportsUnauthorized(retry.thrown)

\* ------------------------------------------------------------- SpecHttp
\* createHttpError called with any status code and any Retry-After header at
\* some instant of the clock; opLog keeps the call and the error it returned.
StatusCodes == 399 .. 600

\* Instants (ms) of the clock and of the HTTP dates a header carries.
HttpInstants == {0, 3000, 7000}

\* Header values: none, the empty string, strings that parseInt reads as the
\* seconds n ("5", "-1", "5s"), HTTP dates (parseInt: NaN), an ISO date
\* (parseInt reads its year) and a string that is neither.
RetryAfterHeaders ==
  {NoHeader, [present |-> TRUE, empty |-> TRUE, parseInt |-> NaN, getTime |-> NaN]}
  \cup {[present |-> TRUE, empty |-> FALSE, parseInt |-> Num(n), getTime |-> NaN] :
          n \in (0 - MaxRetryAfter) .. MaxRetryAfter}
  \cup {[present |-> TRUE, empty |-> FALSE, parseInt |-> NaN, getTime |-> Num(t)] :
          t \in HttpInstants}
  \cup {[present |-> TRUE, empty |-> FALSE, parseInt |-> Num(2015), getTime |-> Num(7000)],
        [present |-> TRUE, empty |-> FALSE, parseInt |-> NaN, getTime |-> NaN]}

InitHttp ==
  /\ now \in HttpInstants
  /\ retry = IdleRetry
  /\ opLog = <<>>
  /\ cache = EmptyCache
  /\ tm = NewTokenManager(0)
  /\ run = IdleRun
  /\ req = IdleRequest
  /\ registry = NewRegistry
  /\ pipeline = NewPipeline

\* createHttpError(statusCode, message, { 'retry-after': retryAfter })
HttpCreateError(statusCode, retryAfter) ==
  /\ opLog = <<>>
  /\ opLog' = <<[op |-> "createHttpError", statusCode |-> statusCode,
                 retryAfter |-> retryAfter, at |-> now,
                 error |-> createHttpError(statusCode, "API request failed with status",
                                           [retryAfter |-> retryAfter], 1, now)]>>
  /\ UNCHANGED <<now, retry, cache, tm, run>>
  /\ UNCHANGED <<req, registry, pipeline>>

NextHttp ==
  \E statusCode \in StatusCodes, retryAfter \in RetryAfterHeaders :
    HttpCreateError(statusCode, retryAfter)

SpecHttp == InitHttp /\ [][NextHttp]_vars

\* ------------------------------------------------------- SpecAttributes
\* collectAttributes called with any attribute configuration on a context
\* whose getters work or fail; opLog keeps the call and the map it returned.
CustomKeys == {"service_name", "env", "repository", "team", "__proto__"}

\* The custom_attributes objects loadConfig hands on: any keys, scalar values.
CustomAttributeMaps == UNION {[keys -> {"custom"}] : keys \in SUBSET CustomKeys}

AttributeConfigs ==
  [includeGitHub : BOOLEAN, customAttributes : CustomAttributeMaps,
   serviceName : {"payment-service", Undefined}, env : {"production", Undefined}]

Contexts == [throwsAt : 0 .. 6]

InitAttributes ==
  /\ now = 0
  /\ retry = IdleRetry
  /\ opLog = <<>>
  /\ cache = EmptyCache
  /\ tm = NewTokenManager(0)
  /\ run = IdleRun
  /\ req = IdleRequest
  /\ registry = NewRegistry
  /\ pipeline = NewPipeline

\* collectAttributes(context, config) returns.
CollectAttributes(context, config) ==
  /\ opLog = <<>>
  /\ opLog' = <<[op |-> "collectAttributes", context |-> context, config |-> config,
                 result |-> collectAttributes(context, config)]>>
  /\ UNCHANGED <<now, retry, cache, tm, run>>
  /\ UNCHANGED <<req, registry, pipeline>>

NextAttributes ==
  \E context \in Contexts, config \in AttributeConfigs : CollectAttributes(context, config)

SpecAttributes == InitAttributes /\ [][NextAttributes]_vars

\* ------------------------------------------------ collectAttributes: the claims
AttributeCalls == {opLog[i] : i \in DOMAIN opLog}

\* The value the steps before the custom merge leave for a key: the context's
\* if the context wrote the key, else the seed's.
EarlierValue(c, key) ==
  IF /\ c.config.includeGitHub
     /\ \E i \in 1 .. AssignmentsDone(c.context.throwsAt) : GitHubAttributes[i].key = key
  THEN ContextValue(key)
  ELSE IF key = "service_name" THEN c.config.serviceName ELSE c.config.env

\* C14 as stated: every key of the custom attributes is in the returned map
\* with its custom value, whatever the seed or the context wrote for it, and
\* every other key of the map keeps the value of the earlier step.
C14_CustomOverrides ==
  \A c \in AttributeCalls :
    /\ \A key \in DOMAIN c.config.customAttributes :
         key \in DOMAIN c.result /\ c.result[key] = c.config.customAttributes[key]
    /\ \A key \in DOMAIN c.result \ DOMAIN c.config.customAttributes :
         c.result[key] = EarlierValue(c, key)

\* C16 as stated: with the context included and one getter throwing,
\* collectAttributes returns a map with service_name, env, every custom
\* attribute and the attributes of every getter that did not throw.
C16_PartialContextKept ==
  \A c \in AttributeCalls :
    (c.config.includeGitHub /\ c.context.throwsAt \in 1 .. 5) =>
      /\ {"service_name", "env"} \subseteq DOMAIN c.result
      /\ \A key \in DOMAIN c.config.customAttributes :
           key \in DOMAIN c.result /\ c.result[key] = c.config.customAttributes[key]
      /\ \A i \in 1 .. Len(GitHubAttributes) :
           GitHubAttributes[i].getter < c.context.throwsAt =>
             GitHubAttributes[i].key \in DOMAIN c.result

\* --------------------------------------------------------- HTTP: the claims
\* The calls of createHttpError made so far.
HttpCalls == {opLog[i] : i \in DOMAIN opLog}

\* C18 as stated: for a status in 400..599, 429 gives a retryable
\* RateLimitError, every 5xx a retryable ServerError carrying the status, and
\* every other 4xx an ApiError that is not retryable.
C18_Original ==
  \A c \in HttpCalls :
    (c.statusCode >= 400 /\ c.statusCode <= 599) =>
      /\ c.statusCode = 429 => (c.error.name = "RateLimitError" /\ c.error.retryable)
      /\ c.statusCode >= 500 =>
           (c.error.name = "ServerError" /\ c.error.retryable
              /\ c.error.statusCode = c.statusCode)
      /\ (c.statusCode <= 499 /\ c.statusCode # 429) =>
           (c.error.name = "ApiError" /\ ~c.error.retryable)

\* C18 amended: for a status in 400..599, 429 gives a retryable
\* RateLimitError; 408 and 504 give a retryable TimeoutError (statusCode 408);
\* every other 5xx gives a retryable ServerError carrying the status; every
\* other 4xx gives an ApiError carrying the status that is not retryable.
C18_Classification ==
  \A c \in HttpCalls :
    (c.statusCode >= 400 /\ c.statusCode <= 599) =>
      /\ c.statusCode = 429 => (c.error.name = "RateLimitError" /\ c.error.retryable)
      /\ c.statusCode \in {408, 504} =>
           (c.error.name = "TimeoutError" /\ c.error.retryable /\ c.error.statusCode = 408)
      /\ (c.statusCode >= 500 /\ c.statusCode # 504) =>
           (c.error.name = "ServerError" /\ c.error.retryable
              /\ c.error.statusCode = c.statusCode)
      /\ (c.statusCode <= 499 /\ c.statusCode \notin {408, 429}) =>
           (c.error.name = "ApiError" /\ ~c.error.retryable
              /\ c.error.statusCode = c.statusCode)

\* createHttpError(504) has returned a TimeoutError.
C18_Witness ==
  \E c \in HttpCalls : c.statusCode = 504 /\ c.error.name = "TimeoutError"

\* C20 as stated: on 429 the error is a RateLimitError whose retryAfterMs is
\* undefined (no header, or a value that does not parse) or a number >= 0:
\* n * 1000 for a value of n seconds, max(0, date - now) for an HTTP date.
C20_RetryAfterNeverNegative ==
  \A c \in HttpCalls :
    c.statusCode = 429 =>
      LET h == c.retryAfter
          ms == c.error.retryAfterMs
      IN  /\ c.error.name = "RateLimitError"
          /\ ms.defined => ms.ms >= 0
          /\ (~h.present \/ h.empty \/ (isNaN(h.parseInt) /\ isNaN(h.getTime))) => ~ms.defined
          /\ (h.present /\ ~h.empty /\ ~isNaN(h.parseInt)) =>
               ms = [defined |-> TRUE, ms |-> h.parseInt.v * 1000]
          /\ (h.present /\ ~h.empty /\ isNaN(h.parseInt) /\ ~isNaN(h.getTime)) =>
               ms = [defined |-> TRUE, ms |-> Max(0, h.getTime.v - c.at)]

\* ----------------------------------------------------- withRetry: the claims
RetryableFailure(i) == ~opLog[i].ok /\ isRetryableError(opLog[i].error)

NonRetryableFailure(i) == ~opLog[i].ok /\ ~isRetryableError(opLog[i].error)

\* C1 as stated: if any invocation fails with a non-retryable error (a
\* Last9Error with retryable false, or no Last9Error), the operation is invoked
\* exactly once in total, no sleep happens and withRetry rejects with that
\* error object.
C1_Original ==
  retry.config.maxAttempts >= 1 =>
    \A i \in DOMAIN opLog :
      NonRetryableFailure(i) =>
        /\ retry.calls = 1
        /\ retry.sleeps = 0
        /\ retry.status = "thrown"
        /\ retry.thrown = opLog[i].error

\* C1 amended: if the i-th invocation fails with a non-retryable error, it is
\* the last invocation, no sleep follows it (i - 1 sleeps in total, so none
\* when it is the first invocation, which is then the only one) and withRetry
\* rejects with that error object, however many attempts remain.
C1_NonRetryableStops ==
  retry.config.maxAttempts >= 1 =>
    \A i \in DOMAIN opLog :
      NonRetryableFailure(i) =>
        /\ i = Len(opLog)
        /\ retry.calls = i
        /\ retry.sleeps = i - 1
        /\ retry.status = "thrown"
        /\ retry.thrown = opLog[i].error

\* The first invocation failed with an error that is no Last9Error while two
\* attempts remained.
C1_Witness ==
  /\ retry.config.maxAttempts = 3
  /\ Len(opLog) = 1
  /\ NonRetryableFailure(1)
  /\ ~isLast9Error(opLog[1].error)
  /\ retry.status = "thrown"

\* C2: with maxAttempts = N >= 1, if every invocation fails with a retryable
\* error, withRetry settles only after exactly N invocations and N - 1 sleeps
\* (at no time more), and it rejects with the error object of the N-th
\* invocation.
C2_RetryableExhausts ==
  LET N == retry.config.maxAttempts
  IN  (N >= 1 /\ \A i \in DOMAIN opLog : RetryableFailure(i)) =>
        /\ retry.sleeps <= N - 1
        /\ retry.calls <= N
        /\ Settled =>
             /\ retry.status = "thrown"
             /\ retry.calls = N
             /\ Len(opLog) = N
             /\ retry.sleeps = N - 1
             /\ retry.thrown = opLog[N].error

\* Three retryable failures have exhausted a policy of three attempts.
C2_Witness ==
  /\ retry.config.maxAttempts = 3
  /\ Len(opLog) = 3
  /\ \A i \in DOMAIN opLog : RetryableFailure(i)
  /\ retry.status = "thrown"

\* C3: with maxAttempts = N >= 1 and k < N, if the first k invocations fail with
\* retryable errors and invocation k + 1 succeeds, withRetry returns the result
\* of that invocation after exactly k + 1 invocations and k sleeps, and the
\* operation is not invoked again.
C3_SuccessReturnsAtOnce ==
  retry.config.maxAttempts >= 1 =>
    \A j \in DOMAIN opLog :
      (opLog[j].ok /\ \A i \in 1 .. (j - 1) : RetryableFailure(i)) =>
        /\ retry.status = "returned"
        /\ retry.result = opLog[j].value
        /\ retry.calls = j
        /\ Len(opLog) = j
        /\ retry.sleeps = j - 1

\* Two 503 failures, then a success on the third of three attempts.
C3_Witness ==
  /\ retry.config.maxAttempts = 3
  /\ Len(opLog) = 3
  /\ opLog[1].error.name = "ServerError" /\ opLog[2].error.name = "ServerError"
  /\ opLog[3].ok
  /\ retry.status = "returned"
  /\ retry.sleeps = 2

\* ------------------------------------------------------ claims about run, ctd.
\* C27 as stated: every retry policy run() hands to withRetry has
\* maxAttempts >= 1, backoffMs >= 0 and maxBackoffMs >= backoffMs.
C27_PolicyWellFormed ==
  retry.status # "idle" =>
    /\ retry.config.maxAttempts >= 1
    /\ retry.config.backoffMs >= 0
    /\ retry.config.maxBackoffMs >= retry.config.backoffMs

\* ------------------------------------------------ claims about withRetry, ctd.
\* C24: the sleep that follows failed attempt i (0 <= i < maxAttempts - 1)
\* lasts calculateBackoff(i, backoffMs, maxBackoffMs) for some jitter draw, so
\* the first retry waits the attempt-0 delay and no sleep exceeds
\* maxBackoffMs; while the sleep lasts the operation is not invoked, and the
\* step that ends it comes no earlier than its duration after its start.
C24_SleepIsBackoffOfAttempt ==
  [][/\ retry'.status = "sleeping" =>
          /\ retry'.attempt >= 0
          /\ retry'.attempt < retry'.config.maxAttempts - 1
          /\ retry'.calls = retry'.attempt + 1
          /\ retry'.sleeps = retry'.attempt + 1
          /\ \E random \in RandomTenths :
               retry'.backoffTime =
                 calculateBackoff(retry'.attempt, retry'.config.backoffMs,
                                  retry'.config.maxBackoffMs, random)
          /\ retry'.backoffTime <= retry'.config.maxBackoffMs
     /\ retry.status = "sleeping" =>
          /\ retry'.calls = retry.calls
          /\ retry'.status # "sleeping" =>
               /\ now' >= now + retry.backoffTime
               /\ retry'.status = "loop"
               /\ retry'.attempt = retry.attempt + 1]_vars

\* Two failed attempts were slept after, the second sleep clamped to
\* maxBackoffMs, and the third attempt has started.
C24_Witness ==
  /\ retry.sleeps = 2
  /\ retry.calls = 3
  /\ retry.backoffTime = retry.config.maxBackoffMs
  /\ now > retry.config.maxBackoffMs

\* ----------------------------------------------- claims about calculateBackoff
BackoffCalls == {i \in DOMAIN opLog : opLog[i].op = "calculateBackoff"}

\* C23: for every attempt >= 0, base >= 0, max >= base and jitter draw, the
\* result of calculateBackoff is at most max, the sum before the clamp lies
\* between base * 2^attempt and 1.3 * base * 2^attempt, and so the result is
\* at least min(max, base * 2^attempt).
C23_BackoffBounds ==
  \A i \in BackoffCalls :
    LET c == opLog[i]
        power == c.baseMs * Pow2(c.attemptNumber)
        sum == c.exponential + c.jitter
    IN  (c.attemptNumber >= 0 /\ c.baseMs >= 0 /\ c.maxMs >= c.baseMs) =>
          /\ c.result <= c.maxMs
          /\ power <= sum
          /\ 10 * sum <= 13 * power
          /\ c.result >= Min(c.maxMs, power)
          /\ c.result = Min(c.maxMs, sum)

\* A call whose sum exceeded the maximum and was clamped, with jitter drawn.
C23_Witness ==
  \E i \in BackoffCalls :
    /\ opLog[i].attemptNumber = 3
    /\ opLog[i].baseMs = 10
    /\ opLog[i].jitter > 0
    /\ opLog[i].exponential + opLog[i].jitter > opLog[i].maxMs
    /\ opLog[i].result = opLog[i].maxMs

\* ------------------------------------------------ TokenManager: claims, ctd.
\* C29: clearCache leaves no entry under any key, whatever the expiry of the
\* entries it finds; and a getAccessToken call entered while its key has no
\* entry, as is the case for every refresh token once clearCache has run and
\* until an exchange stores a token again, makes an exchange call.
C29_ClearCacheForcesExchange ==
  [][/\ TMClearCache => \A k \in CacheKeys : cache'[k] = NoEntry
     /\ \A c \in Callers :
          (Enters(c) /\ cache[getCacheKey(tm'.calls[c].refreshToken)] = NoEntry) =>
            /\ tm'.calls[c].status = "exchanging"
            /\ tm'.exchanges = tm.exchanges + 1]_vars

\* One exchange has stored a token, the cache has been emptied at the same
\* instant, and the next getAccessToken is exchanging again.
C29_Witness ==
  \E c \in Callers :
    /\ tm.calls[c].status = "exchanging"
    /\ tm.exchanges = 2
    /\ tm.nextObj = 2
    /\ now = 0
    /\ \A k \in CacheKeys : cache[k] = NoEntry

\* ----------------------------------------------------------- SpecErrors
\* One value is constructed, an error of any kind built with any status code
\* or a value that is no Last9Error, and handed to isRetryableError.
ErrorValues(obj) ==
  {ConfigError(obj), InvalidInputError(obj), ValidationError(obj), TokenExchangeError(obj),
   TokenExpiredError(obj), UnauthorizedError(obj), NetworkError(obj), TimeoutError(obj),
   ConnectionError(obj), RateLimitError(obj), UnknownError(obj),
   RawError(obj), NonError(obj), RetryableLookalike(obj), NoError}
  \cup {ApiError(statusCode, obj) : statusCode \in StatusCodes \cup {0}}
  \cup {ServerError(statusCode, obj) : statusCode \in StatusCodes}
  \cup {[TokenExchangeError(obj) EXCEPT !.statusCode = statusCode] : statusCode \in {429, 503}}

InitErrors ==
  /\ now = 0
  /\ retry = IdleRetry
  /\ opLog = <<>>
  /\ cache = EmptyCache
  /\ tm = NewTokenManager(0)
  /\ run = IdleRun
  /\ req = IdleRequest
  /\ registry = NewRegistry
  /\ pipeline = NewPipeline

ErrorsIsRetryable(value) ==
  /\ opLog = <<>>
  /\ opLog' = <<[op |-> "isRetryableError", value |-> value,
                 result |-> isRetryableError(value)]>>
  /\ UNCHANGED <<now, retry, cache, tm, run>>
  /\ UNCHANGED <<req, registry, pipeline>>

NextErrors == \E value \in ErrorValues(1) : ErrorsIsRetryable(value)

SpecErrors == InitErrors /\ [][NextErrors]_vars

\* ---------------------------------------------- claims about the error kinds
ErrorCalls == {i \in DOMAIN opLog : opLog[i].op = "isRetryableError"}

\* C28: the retryable flag is FALSE for Config, InvalidInput, Validation,
\* TokenExchange, Unauthorized and Unknown errors and TRUE for Network,
\* Timeout, Connection, RateLimit and Server errors, whatever they were built
\* with; an ApiError's flag is TRUE iff its statusCode is >= 500 or 429; and
\* isRetryableError answers TRUE exactly for Last9Errors whose flag is TRUE.
C28_RetryabilityPerKind ==
  \A i \in ErrorCalls :
    LET value == opLog[i].value
    IN  /\ value.name \in {"ConfigError", "InvalidInputError", "ValidationError",
                           "TokenExchangeError", "UnauthorizedError", "UnknownError"} =>
             ~value.retryable
        /\ value.name \in {"NetworkError", "TimeoutError", "ConnectionError",
                           "RateLimitError", "ServerError"} =>
             value.retryable
        /\ value.name = "ApiError" =>
             (value.retryable <=> (value.statusCode >= 500 \/ value.statusCode = 429))
        /\ opLog[i].result <=> (value.name \in Last9ErrorNames /\ value.retryable)

\* isRetryableError was asked about an ApiError built with status 429.
C28_Witness ==
  \E i \in ErrorCalls :
    /\ opLog[i].value.name = "ApiError"
    /\ opLog[i].value.statusCode = 429
    /\ opLog[i].result

\* ----------------------------------------------------------- SpecClient
\* A Last9ApiClient (timeout 30 s) and a TokenManager (buffer 300 s) on top
\* of it: getAccessToken and sendChangeEvent are called one after the other,
\* each request goes through fetch and the reading of the body while the
\* clock advances, and the server and the transport answer as they like.
ClientInstants == {0, 15000, 30000, 45000, 60000}

\* The non-abort failures of fetch and of response.text().
CatchTransports == {t \in FailureTransports : t.kind \in {"typeError", "other"}}

\* The parsed body of a 2xx response of the token endpoint: with or without
\* access_token, expires_at and refresh_token.
TokenBodies(obj) ==
  [access_token : {0, obj}, refresh_token : {"", "rtB"}, expires_at : {NaN, Num(3600)}]

\* The context of the TokenExchangeError thrown for what was caught.
tokenExchangeErrorContext(error) ==
  IF error.name = "nonError" THEN {} ELSE originalErrorContext

InitClient ==
  /\ now = 0
  /\ retry = IdleRetry
  /\ opLog = <<>>
  /\ cache = EmptyCache
  /\ tm = NewTokenManager(300)
  /\ run = IdleRun
  /\ req = IdleRequest
  /\ registry = NewRegistry
  /\ pipeline = NewPipeline

\* The call of the client has settled as frame q says: a refreshAccessToken
\* call hands its outcome to the getAccessToken call awaiting it.
ClientSettles(q) ==
  IF q.op = "refreshAccessToken"
  THEN LET res == IF q.pc = "rejected"
                  THEN getAccessTokenRejected(tm, cache, 1, q.error, now)
                  ELSE getAccessTokenResolved(tm, cache, 1, q.tokenResponse, now)
       IN  /\ tm' = res.tm
           /\ cache' = res.cache
           /\ req' = [q EXCEPT !.managerContext =
                                 IF res.tm.calls[1].status = "thrown"
                                 THEN tokenExchangeErrorContext(res.tm.calls[1].cause)
                                 ELSE {}]
  ELSE /\ req' = q
       /\ UNCHANGED <<tm, cache>>

ClientGetAccessToken(r) ==
  /\ ~Pending(req)
  /\ LET res == getAccessTokenEnter(tm, cache, 1, r, now)
     IN  /\ res.tm.exchanges <= MaxExchanges
         /\ tm' = res.tm
         /\ cache' = res.cache
         /\ req' = IF res.tm.calls[1].status = "exchanging"
                   THEN makeRequestStart("refreshAccessToken", res.tm.exchanges, now)
                   ELSE IdleRequest
  /\ UNCHANGED <<now, retry, opLog, run, registry, pipeline>>

\* sendChangeEvent with the token the last getAccessToken call returned.
ClientSendChangeEvent ==
  /\ ~Pending(req)
  /\ tm.calls[1].status = "returned"
  /\ req' = makeRequestStart("sendChangeEvent", 1, now)
  /\ UNCHANGED <<now, retry, opLog, cache, tm, run, registry, pipeline>>

ClientTimeout ==
  /\ req.timer
  /\ now >= req.started + TimeoutMs
  /\ ClientSettles(makeRequestTimeout(req, now))
  /\ UNCHANGED <<now, retry, opLog, run, registry, pipeline>>

ClientFetchResolves(status) ==
  /\ req.pc = "fetch"
  /\ req' = makeRequestFetchResolved(req, status, NoHeader)
  /\ UNCHANGED <<now, retry, opLog, cache, tm, run, registry, pipeline>>

ClientFetchRejects(transport) ==
  /\ req.pc = "fetch"
  /\ ClientSettles(makeRequestCatch(req, transport, now))
  /\ UNCHANGED <<now, retry, opLog, run, registry, pipeline>>

ClientErrorBody(body) ==
  /\ req.pc = "errorBody"
  /\ ClientSettles(makeRequestErrorBody(req, body, now))
  /\ UNCHANGED <<now, retry, opLog, run, registry, pipeline>>

ClientErrorBodyRejects(transport) ==
  /\ req.pc = "errorBody"
  /\ ClientSettles(makeRequestCatch(req, transport, now))
  /\ UNCHANGED <<now, retry, opLog, run, registry, pipeline>>

ClientJsonResolves(result) ==
  /\ req.pc = "body"
  /\ ClientSettles(responseJsonResolved(req, result, tm.calls[1].refreshToken))
  /\ UNCHANGED <<now, retry, opLog, run, registry, pipeline>>

ClientJsonRejects(name) ==
  /\ req.pc = "body"
  /\ ClientSettles(responseJsonRejected(req, name))
  /\ UNCHANGED <<now, retry, opLog, run, registry, pipeline>>

\* The clock advances; a timer that is set fires when it is due.
ClientTick ==
  /\ \E t \in ClientInstants :
       /\ t > now
       /\ req.timer => t <= req.started + TimeoutMs
       /\ now' = t
  /\ UNCHANGED <<retry, opLog, cache, tm, run, req, registry, pipeline>>

NextClient ==
  \/ \E r \in RefreshTokens : ClientGetAccessToken(r)
  \/ ClientSendChangeEvent
  \/ ClientTimeout
  \/ \E status \in HttpStatuses : ClientFetchResolves(status)
  \/ \E transport \in CatchTransports : ClientFetchRejects(transport)
  \/ \E body \in {"", "Unauthorized"} : ClientErrorBody(body)
  \/ \E transport \in CatchTransports : ClientErrorBodyRejects(transport)
  \/ \E result \in TokenBodies(tm.nextObj) : ClientJsonResolves(result)
  \/ \E name \in {"SyntaxError", "TypeError"} : ClientJsonRejects(name)
  \/ ClientTick

SpecClient == InitClient /\ [][NextClient]_vars

\* ------------------------------------------- claims about the API client
\* C21 as stated: whatever sendChangeEvent or refreshAccessToken rejects
\* with is a Last9Error.
C21_RejectsOnlyWithLast9Errors ==
  req.pc = "rejected" => isLast9Error(req.error)

\* C22 as stated: no request stays pending past its timeout budget, whether
\* it awaits the response or the rest of its body.
C22_NoRequestPendingPastBudget ==
  Pending(req) => now <= req.started + TimeoutMs

\* C25 as stated: a refreshAccessToken call resolves only with an access
\* token and an expiry, no getAccessToken call returns an undefined token and
\* no cache entry holds one, and a token response carries the presented
\* refresh token when the body had none.
C25_TokenResponseComplete ==
  /\ (req.op = "refreshAccessToken" /\ req.pc = "resolved") =>
       /\ req.tokenResponse.access_token # 0
       /\ ~isNaN(req.tokenResponse.expires_at)
       /\ req.tokenResponse.refresh_token # ""
  /\ tm.calls[1].status = "returned" => tm.calls[1].value # 0
  /\ \A k \in CacheKeys : cache[k] # NoEntry => cache[k].accessToken # 0

EnabledSets == {{"alpha", "gamma"}, {p.name : p \in Plugins}}

\* The PluginsConfig values initialize is called with: some plugins enabled
\* and two of them with a config of their own (one of which has an `enabled`
\* key), or all enabled and none with a config.
PluginsConfigs ==
  {[enabled |-> {"alpha", "gamma"},
    config |-> ("gamma" :> ("level" :> "debug")) @@ ("alpha" :> ("enabled" :> "false"))],
   [enabled |-> {p.name : p \in Plugins}, config |-> EmptyObject]}

InitRegistry ==
  /\ now = 0
  /\ retry = IdleRetry
  /\ opLog = <<>>
  /\ cache = EmptyCache
  /\ tm = NewTokenManager(0)
  /\ run = IdleRun
  /\ req = IdleRequest
  /\ registry = NewRegistry
  /\ pipeline = NewPipeline

RegRegisterProvider(type, provider) ==
  /\ registry' = registerProvider(registry, type, provider)
  /\ UNCHANGED <<now, retry, opLog, cache, tm, run, req, pipeline>>

RegRegisterEventPlugin(plugin) ==
  /\ registry' = registerEventPlugin(registry, plugin)
  /\ UNCHANGED <<now, retry, opLog, cache, tm, run, req, pipeline>>

RegRegisterAttributeProvider(provider) ==
  /\ registry' = registerAttributeProvider(registry, provider)
  /\ UNCHANGED <<now, retry, opLog, cache, tm, run, req, pipeline>>

RegRegisterOutputHandler(handler) ==
  /\ registry' = registerOutputHandler(registry, handler)
  /\ UNCHANGED <<now, retry, opLog, cache, tm, run, req, pipeline>>

RegRegisterTelemetryPlugin(plugin) ==
  /\ registry' = registerTelemetryPlugin(registry, plugin)
  /\ UNCHANGED <<now, retry, opLog, cache, tm, run, req, pipeline>>

RegInitialize(config) ==
  /\ registry.call.pc \notin {"awaitPlugin", "awaitGroup"}
  /\ registry.initializeCalls < MaxInitializeCalls
  /\ registry' = initialize(registry, config)
  /\ UNCHANGED <<now, retry, opLog, cache, tm, run, req, pipeline>>

RegPluginInitializeResolves ==
  /\ registry.call.pc = "awaitPlugin"
  /\ registry' = pluginInitializeResolved(registry)
  /\ UNCHANGED <<now, retry, opLog, cache, tm, run, req, pipeline>>

RegPluginInitializeRejects ==
  /\ registry.call.pc = "awaitPlugin"
  /\ registry' = pluginInitializeRejected(registry)
  /\ UNCHANGED <<now, retry, opLog, cache, tm, run, req, pipeline>>

RegGroupDone ==
  /\ registry.call.pc = "awaitGroup"
  /\ registry' = initializeGroupDone(registry)
  /\ UNCHANGED <<now, retry, opLog, cache, tm, run, req, pipeline>>

NextRegistry ==
  \/ \E type \in ProviderTypes : RegRegisterProvider(type, 1)
  \/ \E plugin \in {p \in Plugins : p.kind = "event"} : RegRegisterEventPlugin(plugin)
  \/ \E plugin \in {p \in Plugins : p.kind = "attribute"} : RegRegisterAttributeProvider(plugin)
  \/ \E plugin \in {p \in Plugins : p.kind = "output"} : RegRegisterOutputHandler(plugin)
  \/ \E plugin \in {p \in Plugins : p.kind = "telemetry"} : RegRegisterTelemetryPlugin(plugin)
  \/ \E config \in PluginsConfigs : RegInitialize(config)
  \/ RegPluginInitializeResolves
  \/ RegPluginInitializeRejects
  \/ RegGroupDone

SpecRegistry == InitRegistry /\ [][NextRegistry]_vars

\* ------------------------------------------ claims about the PluginRegistry
\* What the registry holds: its providers and its four Maps.
Contents(reg) ==
  <<reg.providers, reg.eventPlugins, reg.attributeProviders, reg.outputHandlers,
    reg.telemetryPlugins>>

\* C30: once initialize has completed successfully, every step leaves the
\* providers and the plugin Maps as they are and `initialized` true, a
\* register call of any of the five kinds throws, and an initialize call
\* rejects with 'Registry already initialized' and calls no plugin's
\* initialize.
C30_SealedAfterInitialize ==
  [][registry.initialized =>
       /\ Contents(registry') = Contents(registry)
       /\ registry'.initialized
       /\ registry'.inits = registry.inits
       /\ registry'.last # registry.last =>
            /\ registry'.last.threw
            /\ registry'.last.op \in {"registerProvider", "registerEventPlugin",
                                      "registerAttributeProvider", "registerOutputHandler",
                                      "registerTelemetryPlugin"}
       /\ registry'.call # registry.call =>
            /\ registry'.call.pc = "rejected"
            /\ registry'.call.thrown = "Registry already initialized"]_vars

\* An initialized registry with plugins that were initialized: a register
\* call has thrown and a second initialize call has been rejected.
C30_Witness ==
  /\ registry.initialized
  /\ registry.inits[1] = 1 /\ registry.inits[3] = 1
  /\ Len(registry.eventPlugins) = 2
  /\ registry.last.threw /\ registry.last.op = "registerTelemetryPlugin"
  /\ registry.call.pc = "rejected"
  /\ registry.call.thrown = "Registry already initialized"
  /\ registry.initializeCalls = 2


\* The plugin object with the id.
PluginOf(id) == CHOOSE p \in Plugins : p.id = id

\* The ids of the plugins among `plugins` whose name is in `enabled`, in
\* their order.
EnabledIds(plugins, enabled) ==
  LET chosen == SelectSeq(plugins, LAMBDA p : p.name \in enabled)
  IN  [i \in DOMAIN chosen |-> chosen[i].id]

\* The place of a plugin's group in the order of initialize.
GroupRank(id) ==
  CHOOSE g \in DOMAIN Groups :
    Groups[g] = (CASE PluginOf(id).kind = "event" -> "eventPlugins"
                   [] PluginOf(id).kind = "attribute" -> "attributeProviders"
                   [] PluginOf(id).kind = "output" -> "outputHandlers"
                   [] OTHER -> "telemetryPlugins")

C34_InitializeAtMostOnce ==
  \A id \in PluginIds : registry.inits[id] <= 1


\* ---------------------------------------------------------- SpecDispose
\* One PluginRegistry: plugins are registered at any time, dispose is called
\* (one call at a time), and each plugin's dispose resolves or rejects as it
\* likes.
RegDispose ==
  /\ registry.disposal.pc # "awaitPlugin"
  /\ registry' = dispose(registry)
  /\ UNCHANGED <<now, retry, opLog, cache, tm, run, req, pipeline>>

RegPluginDisposeResolves ==
  /\ registry.disposal.pc = "awaitPlugin"
  /\ registry' = pluginDisposeResolved(registry)
  /\ UNCHANGED <<now, retry, opLog, cache, tm, run, req, pipeline>>

RegPluginDisposeRejects ==
  /\ registry.disposal.pc = "awaitPlugin"
  /\ registry' = pluginDisposeRejected(registry)
  /\ UNCHANGED <<now, retry, opLog, cache, tm, run, req, pipeline>>

NextDispose ==
  \/ \E plugin \in {p \in Plugins : p.kind = "event"} : RegRegisterEventPlugin(plugin)
  \/ \E plugin \in {p \in Plugins : p.kind = "attribute"} : RegRegisterAttributeProvider(plugin)
  \/ \E plugin \in {p \in Plugins : p.kind = "output"} : RegRegisterOutputHandler(plugin)
  \/ \E plugin \in {p \in Plugins : p.kind = "telemetry"} : RegRegisterTelemetryPlugin(plugin)
  \/ RegDispose
  \/ RegPluginDisposeResolves
  \/ RegPluginDisposeRejects

SpecDispose == InitRegistry /\ [][NextDispose]_vars

EventTypes == {"deployment", "incident"}

AttributeProviders ==
  {[id |-> 1, kind |-> "attribute", name |-> "low", priority |-> 10,
    shouldProvide |-> EventTypes],
   [id |-> 2, kind |-> "attribute", name |-> "high", priority |-> 100,
    shouldProvide |-> EventTypes],
   [id |-> 3, kind |-> "attribute", name |-> "middle", priority |-> 50,
    shouldProvide |-> {"deployment"}],
   [id |-> 4, kind |-> "attribute", name |-> "other", priority |-> 50,
    shouldProvide |-> {"incident", "deployment"}],
   [id |-> 5, kind |-> "attribute", name |-> "negative", priority |-> 0 - 1,
    shouldProvide |-> {"incident"}]}

RegGetAttributeProviders(eventType) ==
  /\ opLog = <<>>
  /\ opLog' = <<[op |-> "getAttributeProviders", eventType |-> eventType,
                 result |-> getAttributeProviders(registry, eventType)]>>
  /\ UNCHANGED <<now, retry, cache, tm, run, req, registry, pipeline>>

NextProviders ==
  \/ \E provider \in AttributeProviders : RegRegisterAttributeProvider(provider)
  \/ \E eventType \in EventTypes : RegGetAttributeProviders(eventType)

SpecProviders == InitRegistry /\ [][NextProviders]_vars

\* C33: a call of getAttributeProviders(eventType) leaves the stored
\* providers as they are and returns each stored provider whose
\* shouldProvide(eventType) is true once and no other, a provider of higher
\* priority before one of lower priority.
C33_ProvidersFilteredAndSorted ==
  [][opLog' # opLog =>
       LET result == opLog'[1].result
           stored == registry.attributeProviders
       IN  /\ registry' = registry
           /\ {result[i] : i \in DOMAIN result} =
                {stored[i] : i \in {k \in DOMAIN stored :
                                      opLog'[1].eventType \in stored[k].shouldProvide}}
           /\ \A i, j \in DOMAIN result : i # j => result[i] # result[j]
           /\ \A i, j \in DOMAIN result :
                i < j => result[i].priority >= result[j].priority]_vars

\* The five providers were registered lowest priority first, and the call
\* for "incident" returned the four that provide for it, highest first.
C33_Witness ==
  /\ opLog # <<>>
  /\ opLog[1].eventType = "incident"
  /\ Len(registry.attributeProviders) = 5
  /\ registry.attributeProviders[1].name = "negative"
  /\ registry.attributeProviders[2].name = "low"
  /\ registry.attributeProviders[5].name = "high"
  /\ Len(opLog[1].result) = 4
  /\ opLog[1].result[1].name = "high"
  /\ opLog[1].result[4].name = "negative"


\* ---------------------------------------------------------- SpecOverlap
\* One TokenManager (buffer 300 s) used by two callers whose getAccessToken
\* calls overlap in any way, for the same refresh token or for two; every
\* exchange resolves with a token that expires at 3600 s or rejects, and the
\* clock may pass the instant from which such a token counts as expired.
OverlapCallers == {1, 2}

OverlapExpirySeconds == {3600}

OverlapInstants == {0, 3300000}

InitOverlap ==
  /\ now = 0
  /\ retry = IdleRetry
  /\ opLog = <<>>
  /\ cache = EmptyCache
  /\ tm = [NewTokenManager(0) EXCEPT !.calls = [c \in OverlapCallers |-> IdleCall]]
  /\ run = IdleRun
  /\ req = IdleRequest
  /\ registry = NewRegistry
  /\ pipeline = NewPipeline

OverlapTick ==
  /\ \E t \in OverlapInstants : t > now /\ now' = t
  /\ UNCHANGED <<retry, opLog, cache, tm, run, req, registry, pipeline>>

NextOverlap ==
  \/ \E c \in OverlapCallers, r \in RefreshTokens : TMGetAccessToken(c, r)
  \/ \E c \in OverlapCallers, e \in OverlapExpirySeconds : TMExchangeResolves(c, e, "")
  \/ \E c \in OverlapCallers : \E error \in ExchangeErrors(1) : TMExchangeRejects(c, error)
  \/ OverlapTick

SpecOverlap == InitOverlap /\ [][NextOverlap]_vars

\* C35: a getAccessToken call that finds no valid entry under its key starts
\* an exchange of its own, whether or not another call is exchanging the same
\* refresh token; the cache changes only in a step in which a call finishes,
\* and then the entry under that call's key is what that call wrote: the
\* token it returns if its exchange succeeded, nothing if it failed, whatever
\* another call had stored there.
C35_LastFinisherWins ==
  [][/\ \A c \in OverlapCallers :
          LET k == getCacheKey(tm'.calls[c].refreshToken)
          IN  /\ (Enters(c) /\ tm'.calls[c].via # "cache") =>
                   /\ tm'.calls[c].status = "exchanging"
                   /\ tm'.exchanges = tm.exchanges + 1
                   /\ cache' = cache
              /\ (Returns(c) /\ tm'.calls[c].via = "exchange") =>
                   /\ cache'[k].accessToken = tm'.calls[c].value
                   /\ cache'[k].cachedAt = now
                   /\ cache'[k] # cache[k]
              /\ Rejects(c) => cache'[k] = NoEntry
     /\ cache' # cache =>
          \E c \in OverlapCallers :
            tm.calls[c].status = "exchanging" /\ tm'.calls[c].status # "exchanging"]_vars

\* Two calls for the same refresh token overlapped: the first one's exchange
\* succeeded and it returned a token that is still valid, the other one's
\* exchange failed after that, and the cache holds no entry for the key.
C35_Witness ==
  /\ now = 0
  /\ tm.exchanges = 2
  /\ tm.calls[1].status = "returned" /\ tm.calls[1].via = "exchange"
  /\ tm.calls[1].refreshToken = "rtA" /\ tm.calls[2].refreshToken = "rtA"
  /\ tm.calls[2].status = "thrown"
  /\ cache[getCacheKey("rtA")] = NoEntry


InitPipeline ==
  /\ now = 0
  /\ retry = IdleRetry
  /\ opLog = <<>>
  /\ cache = EmptyCache
  /\ tm = NewTokenManager(0)
  /\ run = IdleRun
  /\ req = IdleRequest
  /\ registry = NewRegistry
  /\ pipeline = NewPipeline

PipeRegister(middleware) ==
  /\ Len(pipeline.middleware) < MaxMiddleware
  /\ \A i \in DOMAIN pipeline.middleware : pipeline.middleware[i] # middleware
  /\ pipeline' = register(pipeline, middleware)
  /\ UNCHANGED <<now, retry, opLog, cache, tm, run, req, registry>>

PipeExecute ==
  /\ pipeline.call.pc # "operation"
  /\ pipeline' = execute(pipeline)
  /\ UNCHANGED <<now, retry, opLog, cache, tm, run, req, registry>>

PipeOperationResolves ==
  /\ pipeline.call.pc = "operation"
  /\ pipeline' = operationResolved(pipeline)
  /\ UNCHANGED <<now, retry, opLog, cache, tm, run, req, registry>>

PipeOperationRejects ==
  /\ pipeline.call.pc = "operation"
  /\ pipeline' = operationRejected(pipeline)
  /\ UNCHANGED <<now, retry, opLog, cache, tm, run, req, registry>>

NextPipeline ==
  \/ \E middleware \in Middlewares : PipeRegister(middleware)
  \/ PipeExecute
  \/ PipeOperationResolves
  \/ PipeOperationRejects

SpecPipeline == InitPipeline /\ [][NextPipeline]_vars

\* The events of the trace that are the run of a middleware of the phase.
Runs(trace, phase) == {i \in DOMAIN trace : trace[i].ev = "run" /\ trace[i].phase = phase}

MiddlewareOf(name) == CHOOSE m \in Middlewares : m.name = name

\* C36: in the step in which the operation of an execute call settles: if it
\* threw, the error phase has run (its first middleware, when there is one)
\* and execute has rejected with the operation's error; if it returned,
\* execute has resolved.
C36_OperationOutcomeIsExecuteOutcome ==
  [][(pipeline.call.pc = "operation" /\ pipeline'.call.pc # "operation") =>
       LET trace == pipeline'.call.trace
           settled == trace[Len(pipeline.call.trace) + 1].ev
           errorPhase == phaseMiddlewareOf(pipeline, "error")
       IN  /\ settled = "threw" =>
                /\ pipeline'.call.pc = "rejected"
                /\ pipeline'.call.thrownBy = "operation"
                /\ errorPhase # <<>> =>
                     \E i \in Runs(trace, "error") : trace[i].name = errorPhase[1].name
           /\ settled = "returned" => pipeline'.call.pc = "resolved"]_vars

\* C37: in the trace of an execute call, every run of a pre-phase middleware
\* comes before the operation is invoked and every run of a post-phase
\* middleware after it returned; the middleware of one phase run in
\* descending priority and, of equal priority, in the order they were
\* registered; none runs twice; and before a middleware runs, every
\* middleware of the phase of higher priority has called next.
C37_PhaseOrdering ==
  LET trace == pipeline.call.trace
      priority(i) == MiddlewareOf(trace[i].name).priority
      registeredAt(i) ==
        CHOOSE k \in DOMAIN pipeline.middleware : pipeline.middleware[k].name = trace[i].name
  IN  /\ \A i \in Runs(trace, "pre") : \A j \in 1 .. i : trace[j].ev # "operation"
      /\ \A i \in Runs(trace, "post") : \E j \in 1 .. i : trace[j].ev = "returned"
      /\ \A phase \in {"pre", "post", "error"} : \A i, j \in Runs(trace, phase) :
           i < j =>
             /\ priority(i) >= priority(j)
             /\ priority(i) = priority(j) => registeredAt(i) < registeredAt(j)
             /\ trace[i].name # trace[j].name
             /\ priority(i) > priority(j) =>
                  \E k \in i .. j : trace[k] = Event("next", trace[i].name, phase)


\* ------------------------------------------------ withRetry: every policy
\* C38: a withRetry call that has settled has invoked the operation at least
\* once, and when it has thrown, what it threw is the error one of its
\* invocations of the operation threw.
C38_SettlesOnlyAfterInvoking ==
  Settled =>
    /\ retry.calls >= 1
    /\ retry.status = "thrown" =>
         \E i \in DOMAIN opLog : ~opLog[i].ok /\ opLog[i].error = retry.thrown


\* ------------------------------------------------- run(): the outputs
\* The sends config.eventState asks for.
ConfiguredSends ==
  {p \in {"start", "stop"} : run.config.eventState \in {p, "both"}}

\* C39: the output 'success' is written at most once, not before run() has
\* ended and once when it has; it is then 'true' exactly when loadConfig
\* returned, the token's withRetry returned and the withRetry of every
\* configured send returned, and setFailed was called exactly when it is
\* 'false'.
C39_SuccessWrittenOnce ==
  /\ run.successWrites = IF RunEnded THEN 1 ELSE 0
  /\ ~RunEnded => run.outputs.success = "" /\ run.setFailed = ""
  /\ RunEnded =>
       /\ run.outputs.success \in {"true", "false"}
       /\ run.outputs.success = "true" <=>
            /\ run.phaseResult.config = "returned"
            /\ run.phaseResult.token = "returned"
            /\ \A p \in ConfiguredSends : run.phaseResult[p] = "returned"
       /\ run.setFailed # "" <=> run.outputs.success = "false"

\* Both events were configured; the start event was sent, the stop event
\* failed, and 'success' was written once, as 'false'.
C39_Witness ==
  /\ RunEnded
  /\ run.config.eventState = "both"
  /\ run.phaseResult.start = "returned" /\ run.phaseResult.stop = "thrown"
  /\ run.successWrites = 1 /\ run.outputs.success = "false"
  /\ run.setFailed # ""

====
